---- MODULE Spec2Model ----
(***************************************************************************)
(* Model of the grid-level driver and ghost-cell exchange of aither:       *)
(*   - gridLevel.cpp : inter-block exchange loops, CalcResidual,           *)
(*     UpdateBlocks, GetGridLevel, SendGridLevel, Restriction              *)
(*   - procBlock.cpp : PutGeomSlice, Swap*SliceMPI, AssignSolToTimeN(m1)   *)
(* Every subsystem has its own specification (SpecSwap, SpecGeom, ...)     *)
(* over the shared variable tuple; the variables of the other subsystems   *)
(* stay at their idle values.                                              *)
(***************************************************************************)
EXTENDS Integers, Sequences, FiniteSets, TLC

(***************************************************************************)
(* Bounds of the model                                                     *)
(***************************************************************************)
NumRanks == 2
NumBlocks == 2
MaxConns == 2

ROOTP == 0

Ranks == 0 .. (NumRanks - 1)
BlockIds(n) == 0 .. (n - 1)

VARIABLES
  \* ---- inter-block exchange over the connection list (gridLevel.cpp) ----
  blkRank,       \* decomposition: global block -> owning rank
  localPos,      \* decomposition: global block -> position on its rank
  connections,   \* the broadcast connection list of the level
  exchOp,        \* the exchange operation all ranks are executing
  isTurbulent,   \* procBlock::isTurbulent_
  swapPc,        \* per rank: "loop", "recv" or "done"
  swapConn,      \* per rank: index of the connection being handled
  swapField,     \* per rank: index of the field in flight for that connection
  swapLog,       \* per rank: sequence of swap invocations
  channel,       \* messages in flight, per <<source, destination>>
  recvLog,       \* per rank: sequence of received messages
  \* ---- gridLevel::CalcResidual on one rank ----
  resRank,       \* the rank executing CalcResidual
  isRANS,        \* inp.IsRANS()
  isReacting,    \* phys.Chemistry()->IsReacting()
  resPhase,      \* "idle", "noSource", "swapGrad", "swapTurb", "srcTerms", "done"
  resIdx,        \* loop counter of the current phase
  resLog,        \* sequence of <<event, block or connection>>
  \* ---- block solution storage and gridLevel::UpdateBlocks ----
  state,         \* per block: primitive state_ <<rho, u>> of its cell
  consVarsN,     \* per block: conserved solution at time n
  consVarsNm1,   \* per block: conserved solution at time n-1
  solverX,       \* per block: solver_->X(bb), the update du
  mm,            \* nonlinear iteration counter
  nonlinearIterations,  \* inp.NonlinearIterations()
  isMultilevelInTime,   \* inp.IsMultilevelInTime()
  updPc,         \* "idle", "solve", "update" or "done"
  timeStep,      \* time steps completed
  updHist,       \* values at entry of the last UpdateBlocks call
  \* ---- gridLevel::GetGridLevel, the gather of blocks to root ----
  gatherPc,      \* per rank: "run", "blocked" (in MPI_Send) or "done"
  gatherIdx,     \* per rank: loop counter (root: global blocks, other: sends)
  globalData,    \* on root: per global block, whose solution it holds
  gatherChan,    \* per source rank: messages sent to root, not yet received
  gatherSent,    \* per rank: global positions of the blocks sent so far
  \* ---- gridLevel::SendGridLevel, the scatter of blocks and connections ----
  sendPc,        \* per rank: position in SendGridLevel
  sendIdx,       \* per rank: loop counter of the block loop
  geomChan,      \* per destination rank: geometry messages from root in flight
  localBlocks,   \* per rank: local.blocks_, global position of each entry
  numCon,        \* per rank: the local variable numCon
  localConns,    \* per rank: local.connections_
  bcastCount,    \* value root put into the first MPI_Bcast, -1 before it
  bcastArray,    \* <<array>> root put into the second MPI_Bcast, <<>> before it
  sendLog,       \* per rank: broadcasts taken part in, array size at entry
  \* ---- gridLevel::Restriction; state, consVarsN are the coarse level's ----
  fineState,     \* per block: the primitive states of the fine cells
  restrictPc,    \* position in Restriction
  restrictIdx,   \* the loop counter ii
  restrictHist,  \* coarse state and time-n solution at entry
  fineResid,     \* per block: fineResid[bb], the residual of the fine cells
  fineUpdate,    \* per block: the fine solver's update of the fine cells
  coarseSys,     \* coarse level: ghost states, residual, time step, inverted
                 \* diagonal, solver update and A x - b, per block
  mgForcing,     \* per block: coarse.mgForcing_ of the coarse cell
  forceIdx,      \* the loop counter bb of the forcing term loop
  \* ---- procBlock::PutGeomSlice ----
  numGhosts,     \* numGhosts_ of the receiving block, also d3
  inter,         \* the connection, the receiving block being its first side
  sliceZero,     \* the strips of the slice whose cells have volume 0
  geomPc,        \* position in PutGeomSlice
  geomL,         \* the loop counters <<l1, l2, l3>>
  adjEdge,       \* the four flags PutGeomSlice returns
  blkGeom,       \* the geometry entries of the block written by the call
  \* ---- edge ghost cells of the states of the blocks of a level ----
  edgeAxis,      \* dd, the direction the edges run along
  edgeBC,        \* per surface type 1 .. 6: the boundary condition type
  edgeCells,     \* per block: state_ in the plane across the edges
  edgePc,        \* the routine in progress
  edgeLoop,      \* <<block, layer3, layer2, cc>>
  \* ---- procBlock::CalcInvFluxI along one line of cells ----
  faceFlux,      \* per i-face: the inviscid flux tempFlux at the face
  faceAreaMag,   \* per i-face: FAreaMagI
  residual,      \* per cell index, ghost indices included: residual_
  fluxIi,        \* the face the loop is at
  fluxPc,        \* "idle", "loop" or "done"
  \* ---- procBlock::UpdateBlock over one line of cells ----
  timeIntegration,  \* inputVars.TimeIntegration(): "explicitEuler" or "implicit"
  cellStateN,    \* per cell: the species densities at entry of the call
  cellState,     \* per cell: state_, the species densities <<rho 1, rho 2>>
  cellDu,        \* per cell: du(ii, jj, kk), the update of the species densities
  cellResid,     \* per cell: residual_(ii, jj, kk), one entry per equation
  linf,          \* resid linf: <<value, block, ii, equation>>
  l2,            \* residual l2: one entry per equation
  ubIi,          \* the cell the loop is at
  ubPc,          \* "idle", "loop" or "done"
  \* ---- procBlock::GetCoarseMeshAndBCs in the directions i and j ----
  surfBoundary,  \* per direction: the node indices bc_.IsSurfaceBoundary holds for
  fineVol,       \* per fine cell <<fi, fj>>: vol_
  keptIndex,     \* per direction: iIndex, jIndex, the fine node indices kept
  sinceLastKept, \* the local of that name
  toCoarse,      \* per fine cell: the coarse cell <<ci, cj>> it maps to
  volFac,        \* per fine cell: its volume weighting factor
  coarsenLoop,   \* the counter of the loop in progress
  coarsenPc,     \* "idle", "index1", "index2", "map", "volFac" or "done"
  \* ---- procBlock::Split and procBlock::Join along one direction ----
  sjOrig,        \* the arrays of the block before the split
  sjBlk,         \* the arrays of the receiver
  sjUpper,       \* the arrays of the returned upper block
  sjInd,         \* ind, the index split at
  sjPc,          \* "idle", "whole", "split", "joined" or "failed"
  \* ---- one run: start-up in main, CalcBlockTimeStep, UpdateBlock ----
  runInput,      \* the input: equationSet, dt, cfl, refs <<aRef, LRef>>, timeIntegration
  runVol,        \* per cell: vol_
  runSpecRadius, \* per cell: specRadius_ <<flow, turbulence>>
  runDt,         \* per cell: dt_, <<0, 0>> while not set
  runUpdated,    \* the cells UpdateBlock has gone through
  runDiag,       \* the error diagnostics written to cerr
  runAfterDiag,  \* the blocks and cells processed after a diagnostic
  exitStatus,    \* the exit status of the process, -1 while it runs
  runLoop,       \* the counter of the loop in progress
  runPc,         \* "idle", "init", "timeStep", "update", "returned" or "exited"
  \* ---- geometry swaps at a "t" intersection of three blocks ----
  teeVol,        \* per physical cell <<x, y>> of the grid: its volume
  teeGhost,      \* per block and ghost position: the geometry held, <<x, y, vol>>
  teeSwapped,    \* the connections whose geometry has been swapped
  teeBorder,     \* the <<connection, block>> whose border was updated
  \* ---- the linear solver handle of the grid levels ----
  solImplicit,   \* inp.IsImplicit()
  solBuilt,      \* per grid level: how it was built, "none" when it does not exist
  solAssigned,   \* per grid level: solver_ has been assigned a solver
  solDeref,      \* the dereferences of solver_ so far: level, routine, handle assigned
  \* ---- the stages of the explicit update of a block ----
  rkInput,       \* the input: time integration scheme and nonlinear iterations
  rkStep,        \* nn: the time step
  rkMm,          \* mm: the nonlinear iteration
  rkCell,        \* the cell UpdateBlock is at
  rkConsN,       \* consVarsN_: per cell, the conserved variable at time n
  rkState,       \* state_: per cell, the conserved variable
  rkResid,       \* residual_: per cell
  rkUsed,        \* the indices the coefficient table was read at
  rkPc,          \* position of the driver
  \* ---- the accumulators of a block over calls of CalcResidualNoSource ----
  accFlags,      \* isViscous_, isTurbulent_, isRANS_, isMultiSpecies_ of the block
  accFace,       \* per cell: what a pass over the faces adds to the cell, the state being unchanged
  accField,      \* per accumulator and cell: the value held
  accFirst,      \* the accumulators as the first call left them
  accCalls,      \* the calls of CalcResidualNoSource that have returned
  accPc,         \* position in CalcResidualNoSource
  \* ---- the identity of the blocks of a coarsened grid level ----
  cidFine,       \* per rank: blocks_ of the fine level, each block's identity
  cidCoarse,     \* per rank: coarse.blocks_ as built so far
  cidPc          \* per rank: position in Coarsen

gridVars == <<blkRank, localPos, connections, isTurbulent>>

swapVars == <<gridVars, exchOp, swapPc, swapConn, swapField, swapLog,
              channel, recvLog>>

\* the global block positions of the level
Blocks == DOMAIN blkRank

\* the local positions a decomposition can give: on every rank the blocks of
\* that rank are numbered 0 .. n-1, in any order
LocalPositions(br) ==
  {lp \in [DOMAIN br -> BlockIds(Cardinality(DOMAIN br))] :
     \A r \in Ranks :
       LET mine == {b \in DOMAIN br : br[b] = r}
       IN /\ \A b \in mine : lp[b] < Cardinality(mine)
          /\ \A b, c \in mine : lp[b] = lp[c] => b = c}

SwapIdle ==
  /\ exchOp = "none"
  /\ swapPc = [r \in Ranks |-> "done"]
  /\ swapConn = [r \in Ranks |-> 0]
  /\ swapField = [r \in Ranks |-> 0]
  /\ swapLog = [r \in Ranks |-> <<>>]
  /\ channel = [p \in Ranks \X Ranks |-> <<>>]
  /\ recvLog = [r \in Ranks |-> <<>>]

resVars == <<resRank, isRANS, isReacting, resPhase, resIdx, resLog>>

ResIdle ==
  /\ resRank = 0
  /\ isRANS = FALSE
  /\ isReacting = FALSE
  /\ resPhase = "idle"
  /\ resIdx = 0
  /\ resLog = <<>>

GridIdle ==
  /\ blkRank = [b \in BlockIds(NumBlocks) |-> 0]
  /\ localPos = [b \in BlockIds(NumBlocks) |-> b]
  /\ connections = <<>>
  /\ isTurbulent = FALSE

updVars == <<state, consVarsN, consVarsNm1, solverX, mm, nonlinearIterations,
             isMultilevelInTime, updPc, timeStep, updHist>>

NoHist == [mm |-> -1]

UpdIdle ==
  /\ state = <<>>
  /\ consVarsN = <<>>
  /\ consVarsNm1 = <<>>
  /\ solverX = <<>>
  /\ mm = 0
  /\ nonlinearIterations = 0
  /\ isMultilevelInTime = FALSE
  /\ updPc = "idle"
  /\ timeStep = 0
  /\ updHist = NoHist

gatherVars == <<gatherPc, gatherIdx, globalData, gatherChan, gatherSent>>

GatherIdle ==
  /\ gatherPc = [r \in Ranks |-> "done"]
  /\ gatherIdx = [r \in Ranks |-> 0]
  /\ globalData = <<>>
  /\ gatherChan = [r \in Ranks |-> <<>>]
  /\ gatherSent = [r \in Ranks |-> <<>>]

sendVars == <<sendPc, sendIdx, geomChan, localBlocks, numCon, localConns,
              bcastCount, bcastArray, sendLog>>

SendIdle ==
  /\ sendPc = [r \in Ranks |-> "done"]
  /\ sendIdx = [r \in Ranks |-> 0]
  /\ geomChan = [r \in Ranks |-> <<>>]
  /\ localBlocks = [r \in Ranks |-> <<>>]
  /\ numCon = [r \in Ranks |-> 0]
  /\ localConns = [r \in Ranks |-> <<>>]
  /\ bcastCount = -1
  /\ bcastArray = <<>>
  /\ sendLog = [r \in Ranks |-> <<>>]

restrictVars == <<fineState, restrictPc, restrictIdx, restrictHist, fineResid,
                  fineUpdate, coarseSys, mgForcing, forceIdx>>

RestrictIdle ==
  /\ fineState = <<>>
  /\ restrictPc = "idle"
  /\ restrictIdx = 0
  /\ restrictHist = NoHist
  /\ fineResid = <<>>
  /\ fineUpdate = <<>>
  /\ coarseSys = <<>>
  /\ mgForcing = <<>>
  /\ forceIdx = 0

geomVars == <<numGhosts, inter, sliceZero, geomPc, geomL, adjEdge, blkGeom>>

GeomIdle ==
  /\ numGhosts = 0
  /\ inter = <<>>
  /\ sliceZero = {}
  /\ geomPc = "idle"
  /\ geomL = <<0, 0, 0>>
  /\ adjEdge = <<FALSE, FALSE, FALSE, FALSE>>
  /\ blkGeom = <<>>

edgeVars == <<edgeAxis, edgeBC, edgeCells, edgePc, edgeLoop>>

EdgeIdle ==
  /\ edgeAxis = 0
  /\ edgeBC = <<>>
  /\ edgeCells = <<>>
  /\ edgePc = "idle"
  /\ edgeLoop = <<0, 0, 0, 0>>

fluxVars == <<faceFlux, faceAreaMag, residual, fluxIi, fluxPc>>

FluxIdle ==
  /\ faceFlux = <<>>
  /\ faceAreaMag = <<>>
  /\ residual = <<>>
  /\ fluxIi = 0
  /\ fluxPc = "idle"

ubVars == <<timeIntegration, cellStateN, cellState, cellDu, cellResid, linf, l2,
            ubIi, ubPc>>

UbIdle ==
  /\ timeIntegration = "none"
  /\ cellStateN = <<>>
  /\ cellState = <<>>
  /\ cellDu = <<>>
  /\ cellResid = <<>>
  /\ linf = <<0, 0, 0, 0>>
  /\ l2 = <<0, 0>>
  /\ ubIi = 0
  /\ ubPc = "idle"

coarsenVars == <<surfBoundary, fineVol, keptIndex, sinceLastKept, toCoarse, volFac,
                 coarsenLoop, coarsenPc>>

CoarsenIdle ==
  /\ surfBoundary = <<>>
  /\ fineVol = <<>>
  /\ keptIndex = <<>>
  /\ sinceLastKept = 0
  /\ toCoarse = <<>>
  /\ volFac = <<>>
  /\ coarsenLoop = 0
  /\ coarsenPc = "idle"

splitVars == <<sjOrig, sjBlk, sjUpper, sjInd, sjPc>>

SplitIdle ==
  /\ sjOrig = <<>>
  /\ sjBlk = <<>>
  /\ sjUpper = <<>>
  /\ sjInd = 0
  /\ sjPc = "idle"

runVars == <<runInput, runVol, runSpecRadius, runDt, runUpdated, runDiag, runAfterDiag, exitStatus, runLoop, runPc>>

RunIdle ==
  /\ runInput = <<>>
  /\ runVol = <<>>
  /\ runSpecRadius = <<>>
  /\ runDt = <<>>
  /\ runUpdated = {}
  /\ runDiag = <<>>
  /\ runAfterDiag = 0
  /\ exitStatus = 0 - 1
  /\ runLoop = 0
  /\ runPc = "idle"

teeVars == <<teeVol, teeGhost, teeSwapped, teeBorder>>

TeeIdle ==
  /\ teeVol = <<>>
  /\ teeGhost = <<>>
  /\ teeSwapped = {}
  /\ teeBorder = {}

solverVars == <<solImplicit, solBuilt, solAssigned, solDeref>>

SolverIdle ==
  /\ solImplicit = FALSE
  /\ solBuilt = <<>>
  /\ solAssigned = <<>>
  /\ solDeref = {}

rkVars == <<rkInput, rkStep, rkMm, rkCell, rkConsN, rkState, rkResid, rkUsed, rkPc>>

RkIdle ==
  /\ rkInput = <<>>
  /\ rkStep = 0
  /\ rkMm = 0
  /\ rkCell = 0
  /\ rkConsN = <<>>
  /\ rkState = <<>>
  /\ rkResid = <<>>
  /\ rkUsed = {}
  /\ rkPc = "idle"

accVars == <<accFlags, accFace, accField, accFirst, accCalls, accPc>>

AccIdle ==
  /\ accFlags = <<>>
  /\ accFace = <<>>
  /\ accField = <<>>
  /\ accFirst = <<>>
  /\ accCalls = 0
  /\ accPc = "idle"

cidVars == <<cidFine, cidCoarse, cidPc>>

CidIdle ==
  /\ cidFine = <<>>
  /\ cidCoarse = <<>>
  /\ cidPc = <<>>

\* the subsystems of the single block routines
laterVars == <<edgeVars, fluxVars, ubVars, coarsenVars, splitVars, runVars, teeVars, solverVars, rkVars, accVars, cidVars>>
LaterIdle == EdgeIdle /\ FluxIdle /\ UbIdle /\ CoarsenIdle /\ SplitIdle /\ RunIdle /\ TeeIdle /\ SolverIdle /\ RkIdle /\ AccIdle /\ CidIdle

coreVars == <<swapVars, resVars, updVars, gatherVars, sendVars, restrictVars, geomVars>>

CoreIdle ==
  /\ GridIdle
  /\ SwapIdle
  /\ ResIdle
  /\ UpdIdle
  /\ GatherIdle
  /\ SendIdle
  /\ RestrictIdle
  /\ GeomIdle

vars == <<coreVars, laterVars>>

notEdgeVars == <<coreVars, fluxVars, ubVars, coarsenVars, splitVars, runVars, teeVars, solverVars, rkVars, accVars, cidVars>>
NotEdgeIdle == CoreIdle /\ FluxIdle /\ UbIdle /\ CoarsenIdle /\ SplitIdle /\ RunIdle /\ TeeIdle /\ SolverIdle /\ RkIdle /\ AccIdle /\ CidIdle
notFluxVars == <<coreVars, edgeVars, ubVars, coarsenVars, splitVars, runVars, teeVars, solverVars, rkVars, accVars, cidVars>>
NotFluxIdle == CoreIdle /\ EdgeIdle /\ UbIdle /\ CoarsenIdle /\ SplitIdle /\ RunIdle /\ TeeIdle /\ SolverIdle /\ RkIdle /\ AccIdle /\ CidIdle
notUbVars == <<coreVars, edgeVars, fluxVars, coarsenVars, splitVars, runVars, teeVars, solverVars, rkVars, accVars, cidVars>>
NotUbIdle == CoreIdle /\ EdgeIdle /\ FluxIdle /\ CoarsenIdle /\ SplitIdle /\ RunIdle /\ TeeIdle /\ SolverIdle /\ RkIdle /\ AccIdle /\ CidIdle
notCoarsenVars == <<coreVars, edgeVars, fluxVars, ubVars, splitVars, runVars, teeVars, solverVars, rkVars, accVars, cidVars>>
NotCoarsenIdle == CoreIdle /\ EdgeIdle /\ FluxIdle /\ UbIdle /\ SplitIdle /\ RunIdle /\ TeeIdle /\ SolverIdle /\ RkIdle /\ AccIdle /\ CidIdle
notSplitVars == <<coreVars, edgeVars, fluxVars, ubVars, coarsenVars, runVars, teeVars, solverVars, rkVars, accVars, cidVars>>
NotSplitIdle == CoreIdle /\ EdgeIdle /\ FluxIdle /\ UbIdle /\ CoarsenIdle /\ RunIdle /\ TeeIdle /\ SolverIdle /\ RkIdle /\ AccIdle /\ CidIdle
notRunVars == <<coreVars, edgeVars, fluxVars, ubVars, coarsenVars, splitVars, teeVars, solverVars, rkVars, accVars, cidVars>>
NotRunIdle == CoreIdle /\ EdgeIdle /\ FluxIdle /\ UbIdle /\ CoarsenIdle /\ SplitIdle /\ TeeIdle /\ SolverIdle /\ RkIdle /\ AccIdle /\ CidIdle
notTeeVars == <<coreVars, edgeVars, fluxVars, ubVars, coarsenVars, splitVars, runVars, solverVars, rkVars, accVars, cidVars>>
NotTeeIdle == CoreIdle /\ EdgeIdle /\ FluxIdle /\ UbIdle /\ CoarsenIdle /\ SplitIdle /\ RunIdle /\ SolverIdle /\ RkIdle /\ AccIdle /\ CidIdle
notSolverVars == <<coreVars, edgeVars, fluxVars, ubVars, coarsenVars, splitVars, runVars, teeVars, rkVars, accVars, cidVars>>
NotSolverIdle == CoreIdle /\ EdgeIdle /\ FluxIdle /\ UbIdle /\ CoarsenIdle /\ SplitIdle /\ RunIdle /\ TeeIdle /\ RkIdle /\ AccIdle /\ CidIdle
notRkVars == <<coreVars, edgeVars, fluxVars, ubVars, coarsenVars, splitVars, runVars, teeVars, solverVars, accVars, cidVars>>
NotRkIdle == CoreIdle /\ EdgeIdle /\ FluxIdle /\ UbIdle /\ CoarsenIdle /\ SplitIdle /\ RunIdle /\ TeeIdle /\ SolverIdle /\ AccIdle /\ CidIdle
notAccVars == <<coreVars, edgeVars, fluxVars, ubVars, coarsenVars, splitVars, runVars, teeVars, solverVars, rkVars, cidVars>>
NotAccIdle == CoreIdle /\ EdgeIdle /\ FluxIdle /\ UbIdle /\ CoarsenIdle /\ SplitIdle /\ RunIdle /\ TeeIdle /\ SolverIdle /\ RkIdle /\ CidIdle
notCidVars == <<coreVars, edgeVars, fluxVars, ubVars, coarsenVars, splitVars, runVars, teeVars, solverVars, rkVars, accVars>>
NotCidIdle == CoreIdle /\ EdgeIdle /\ FluxIdle /\ UbIdle /\ CoarsenIdle /\ SplitIdle /\ RunIdle /\ TeeIdle /\ SolverIdle /\ RkIdle /\ AccIdle

\* the variables an action of one subsystem leaves alone
exchVars == <<exchOp, swapPc, swapConn, swapField, swapLog, channel, recvLog>>
notSwapVars == <<resVars, updVars, gatherVars, sendVars, restrictVars, geomVars,
                 laterVars>>
notResVars == <<swapVars, updVars, gatherVars, sendVars, restrictVars, geomVars,
                laterVars>>
notUpdVars == <<swapVars, resVars, gatherVars, sendVars, restrictVars, geomVars,
                laterVars>>
notGatherVars == <<exchVars, connections, isTurbulent, resVars, updVars, sendVars,
                   restrictVars, geomVars, laterVars>>
notSendVars == <<exchVars, isTurbulent, resVars, updVars, gatherVars, restrictVars,
                 geomVars, laterVars>>
notRestrictVars == <<swapVars, resVars, gatherVars, sendVars, consVarsNm1, solverX,
                     nonlinearIterations, isMultilevelInTime, updPc, timeStep,
                     updHist, geomVars, laterVars>>
notGeomVars == <<swapVars, resVars, updVars, gatherVars, sendVars, restrictVars,
                 laterVars>>

\* the idle values of the subsystems a specification does not exercise
NotSwapIdle ==
  ResIdle /\ UpdIdle /\ GatherIdle /\ SendIdle /\ RestrictIdle /\ GeomIdle /\ LaterIdle
NotResIdle ==
  SwapIdle /\ UpdIdle /\ GatherIdle /\ SendIdle /\ RestrictIdle /\ GeomIdle /\ LaterIdle
NotUpdIdle ==
  /\ GridIdle /\ SwapIdle /\ ResIdle /\ GatherIdle /\ SendIdle /\ RestrictIdle
  /\ GeomIdle /\ LaterIdle
NotGatherIdle ==
  /\ connections = <<>>
  /\ isTurbulent = FALSE
  /\ SwapIdle
  /\ ResIdle
  /\ UpdIdle
  /\ SendIdle
  /\ RestrictIdle
  /\ GeomIdle
  /\ LaterIdle
NotSendIdle ==
  /\ isTurbulent = FALSE
  /\ SwapIdle
  /\ ResIdle
  /\ UpdIdle
  /\ GatherIdle
  /\ RestrictIdle
  /\ GeomIdle
  /\ LaterIdle
NotRestrictIdle ==
  /\ GridIdle
  /\ SwapIdle
  /\ ResIdle
  /\ GatherIdle
  /\ SendIdle
  /\ GeomIdle
  /\ LaterIdle
NotGeomIdle ==
  /\ GridIdle
  /\ SwapIdle
  /\ ResIdle
  /\ UpdIdle
  /\ GatherIdle
  /\ SendIdle
  /\ RestrictIdle
  /\ LaterIdle

(***************************************************************************)
(* Inter-block exchange                                                    *)
(***************************************************************************)
\* the exchange operations of a grid level; "geom" is the geometry swap loop
\* of Coarsen
ExchangeOps == {"state", "wallDist", "turb", "eddyViscAndGrad", "geom"}

\* default value of the tag argument of multiArray3d::SwapSliceMPI
DefaultSwapTag == 1

\* procBlock::LocalPosition()
LocalPosition(b) == localPos[b]

\* blocks_[lp] on rank r
BlockAt(r, lp) ==
  LET cand == {b \in Blocks : blkRank[b] = r /\ LocalPosition(b) = lp}
  IN IF cand = {} THEN -1 ELSE CHOOSE b \in cand : TRUE

RankFirst(conn) == blkRank[conn.blockFirst]
RankSecond(conn) == blkRank[conn.blockSecond]
LocalBlockFirst(conn) == LocalPosition(conn.blockFirst)
LocalBlockSecond(conn) == LocalPosition(conn.blockSecond)

\* the fields a Swap...SliceMPI call exchanges, in order
SwapFields(op) ==
  CASE op = "state" -> <<"state">>
    [] op = "wallDist" -> <<"wallDist">>
    [] op = "turb" -> <<"f1", "f2">>
    [] op = "eddyViscAndGrad" ->
         IF isTurbulent THEN <<"velocityGrad", "eddyViscosity">>
         ELSE <<"velocityGrad">>
    [] op = "geom" -> <<"geom">>

\* mutant: every exchange tagged with the index of its connection
SwapTagFromConnection(field, ii) == ii

\* the message tag of one field exchange; ii is the 0-based connection index
SwapTag(field, ii) ==
  CASE field = "state" -> DefaultSwapTag
    [] field = "wallDist" -> 1
    [] field = "f1" -> 2
    [] field = "f2" -> 3
    [] field = "velocityGrad" -> 1
    [] field = "eddyViscosity" -> 5
    [] field = "geom" -> ii

\* mutant: the both-local test is missing, so each side swaps over MPI
SwapBranchNoLocal(conn, r) ==
  IF RankFirst(conn) = r THEN "mpiFirst"
  ELSE IF RankSecond(conn) = r THEN "mpiSecond"
  ELSE "none"

\* mutant: the rank of the second side does not take part
SwapBranchFirstOnly(conn, r) ==
  IF RankFirst(conn) = r /\ RankSecond(conn) = r THEN "local"
  ELSE IF RankFirst(conn) = r THEN "mpiFirst"
  ELSE "none"

\* which branch of the connection loop rank r takes for conn
SwapBranch(conn, r) ==
  IF RankFirst(conn) = r /\ RankSecond(conn) = r THEN "local"
  ELSE IF RankFirst(conn) = r THEN "mpiFirst"
  ELSE IF RankSecond(conn) = r THEN "mpiSecond"
  ELSE "none"

\* Coarsen only swaps geometry over interblock connections
ConnSkipped(op, conn) == op = "geom" /\ ~conn.interblock

PartnerRank(conn, r) ==
  IF RankFirst(conn) = r THEN RankSecond(conn) ELSE RankFirst(conn)

Message(r, ci, fi) ==
  LET field == SwapFields(exchOp)[fi]
  IN [tag |-> SwapTag(field, ci - 1), field |-> field, conn |-> ci, from |-> r]

ConnRecord ==
  [blockFirst : BlockIds(NumBlocks), blockSecond : BlockIds(NumBlocks),
   interblock : BOOLEAN]

ConnLists == UNION {[1 .. n -> ConnRecord] : n \in 1 .. MaxConns}

\* the lists drawn where only Coarsen reads IsInterblock
InterblockLists == {c \in ConnLists : \A i \in DOMAIN c : c[i].interblock}

SwapInit ==
  /\ blkRank \in [BlockIds(NumBlocks) -> Ranks]
  /\ localPos \in LocalPositions(blkRank)
  /\ exchOp \in ExchangeOps
  /\ connections \in (IF exchOp = "geom" THEN ConnLists ELSE InterblockLists)
  /\ isTurbulent \in (IF exchOp = "eddyViscAndGrad" THEN BOOLEAN ELSE {FALSE})
  /\ swapPc = [r \in Ranks |-> "loop"]
  /\ swapConn = [r \in Ranks |-> 1]
  /\ swapField = [r \in Ranks |-> 0]
  /\ swapLog = [r \in Ranks |-> <<>>]
  /\ channel = [p \in Ranks \X Ranks |-> <<>>]
  /\ recvLog = [r \in Ranks |-> <<>>]
  /\ NotSwapIdle

\* one iteration of "for (auto &conn : connections_)" on rank r, up to the
\* point where an MPI exchange blocks
SwapConnection(r) ==
  /\ swapPc[r] = "loop"
  /\ swapConn[r] <= Len(connections)
  /\ LET ci == swapConn[r]
         conn == connections[ci]
         br == SwapBranch(conn, r)
     IN IF ConnSkipped(exchOp, conn) \/ br = "none"
        THEN /\ swapConn' = [swapConn EXCEPT ![r] = ci + 1]
             /\ UNCHANGED <<swapPc, swapField, swapLog, channel>>
        ELSE IF br = "local"
        THEN /\ swapLog' = [swapLog EXCEPT ![r] = Append(@,
                  [kind |-> "local", conn |-> ci,
                   blk |-> BlockAt(r, LocalBlockFirst(conn)),
                   other |-> BlockAt(r, LocalBlockSecond(conn))])]
             /\ swapConn' = [swapConn EXCEPT ![r] = ci + 1]
             /\ UNCHANGED <<swapPc, swapField, channel>>
        ELSE /\ swapLog' = [swapLog EXCEPT ![r] = Append(@,
                  [kind |-> "mpi", conn |-> ci,
                   blk |-> IF br = "mpiFirst"
                           THEN BlockAt(r, LocalBlockFirst(conn))
                           ELSE BlockAt(r, LocalBlockSecond(conn)),
                   other |-> -1])]
             /\ channel' = [channel EXCEPT ![<<r, PartnerRank(conn, r)>>] =
                              Append(@, Message(r, ci, 1))]
             /\ swapField' = [swapField EXCEPT ![r] = 1]
             /\ swapPc' = [swapPc EXCEPT ![r] = "recv"]
             /\ UNCHANGED swapConn
  /\ UNCHANGED <<gridVars, exchOp, recvLog>>
  /\ UNCHANGED notSwapVars

\* position of the first message with the given tag in a channel (0 if none):
\* MPI matches messages of one source and tag in the order they were sent
FirstWithTag(q, tag) ==
  LET idx == {i \in 1 .. Len(q) : q[i].tag = tag}
  IN IF idx = {} THEN 0 ELSE CHOOSE i \in idx : \A j \in idx : i <= j

RemoveAt(q, i) == [j \in 1 .. (Len(q) - 1) |-> IF j < i THEN q[j] ELSE q[j + 1]]

\* the receive half of the blocking pairwise exchange completes on rank r
SwapReceive(r) ==
  /\ swapPc[r] = "recv"
  /\ LET ci == swapConn[r]
         conn == connections[ci]
         fi == swapField[r]
         src == PartnerRank(conn, r)
         q == channel[<<src, r>>]
         pos == FirstWithTag(q, Message(r, ci, fi).tag)
         fields == SwapFields(exchOp)
     IN /\ pos > 0
        /\ recvLog' = [recvLog EXCEPT ![r] = Append(@,
               [conn |-> ci, field |-> fields[fi], got |-> q[pos]])]
        /\ IF fi < Len(fields)
           THEN /\ channel' = [channel EXCEPT
                     ![<<src, r>>] = RemoveAt(q, pos),
                     ![<<r, src>>] = Append(@, Message(r, ci, fi + 1))]
                /\ swapField' = [swapField EXCEPT ![r] = fi + 1]
                /\ UNCHANGED <<swapPc, swapConn>>
           ELSE /\ channel' = [channel EXCEPT ![<<src, r>>] = RemoveAt(q, pos)]
                /\ swapField' = [swapField EXCEPT ![r] = 0]
                /\ swapPc' = [swapPc EXCEPT ![r] = "loop"]
                /\ swapConn' = [swapConn EXCEPT ![r] = ci + 1]
  /\ UNCHANGED <<gridVars, exchOp, swapLog>>
  /\ UNCHANGED notSwapVars

\* the connection loop of rank r is exhausted
SwapFinish(r) ==
  /\ swapPc[r] = "loop"
  /\ swapConn[r] > Len(connections)
  /\ swapPc' = [swapPc EXCEPT ![r] = "done"]
  /\ UNCHANGED <<gridVars, exchOp, swapConn, swapField, swapLog,
                 channel, recvLog>>
  /\ UNCHANGED notSwapVars


SwapNext ==
  \/ \E r \in Ranks : SwapConnection(r)
  \/ \E r \in Ranks : SwapReceive(r)
  \/ \E r \in Ranks : SwapFinish(r)

SpecSwap == SwapInit /\ [][SwapNext]_vars

(***************************************************************************)
(* Properties of the inter-block exchange                                  *)
(***************************************************************************)
LogEntries(r, ci, kind) ==
  {i \in DOMAIN swapLog[r] : swapLog[r][i].conn = ci /\ swapLog[r][i].kind = kind}

\* rank r has entered the handling of connection ci
ConnStarted(r, ci) ==
  swapConn[r] > ci \/ (swapConn[r] = ci /\ swapPc[r] = "recv")

\* C1: in every exchange operation of a level (state, wall distance,
\* turbulence blending functions, eddy viscosity and gradients) and for every
\* connection: a rank owning both sides invokes the local swap exactly once
\* and no MPI swap; a rank owning exactly one side invokes the MPI swap exactly
\* once, on the local block of its own side; a rank owning neither side
\* performs no swap for that connection.
C1_SwapOncePerConnection ==
  exchOp # "geom" =>
    \A r \in Ranks : \A ci \in 1 .. Len(connections) :
      LET conn == connections[ci]
          locals == LogEntries(r, ci, "local")
          mpis == LogEntries(r, ci, "mpi")
          expected == IF ConnStarted(r, ci) THEN 1 ELSE 0
          mine == {b \in {conn.blockFirst, conn.blockSecond} : blkRank[b] = r}
      IN /\ (RankFirst(conn) = r /\ RankSecond(conn) = r) =>
               /\ Cardinality(locals) = expected
               /\ mpis = {}
               /\ \A i \in locals : /\ swapLog[r][i].blk = conn.blockFirst
                                    /\ swapLog[r][i].other = conn.blockSecond
         /\ (RankFirst(conn) # RankSecond(conn) /\ mine # {}) =>
               /\ Cardinality(mpis) = expected
               /\ locals = {}
               /\ \A i \in mpis : swapLog[r][i].blk \in mine
         /\ mine = {} => (locals = {} /\ mpis = {})

\* witness of C1: all ranks finished an exchange that had a both-local
\* connection and a cross-rank connection
C1_Witness ==
  /\ exchOp # "geom"
  /\ \A r \in Ranks : swapPc[r] = "done"
  /\ \E r \in Ranks : \E i \in DOMAIN swapLog[r] : swapLog[r][i].kind = "local"
  /\ \E r \in Ranks : \E i \in DOMAIN swapLog[r] : swapLog[r][i].kind = "mpi"
  /\ \E ci \in 1 .. Len(connections) :
       RankFirst(connections[ci]) # RankSecond(connections[ci])

\* every message sent so far, with its destination
SentMessages ==
  UNION {{[from |-> p[1], to |-> p[2], tag |-> channel[p][i].tag,
           field |-> channel[p][i].field, conn |-> channel[p][i].conn] :
            i \in DOMAIN channel[p]} : p \in Ranks \X Ranks}
  \cup
  UNION {{[from |-> recvLog[r][i].got.from, to |-> r,
           tag |-> recvLog[r][i].got.tag, field |-> recvLog[r][i].got.field,
           conn |-> recvLog[r][i].got.conn] : i \in DOMAIN recvLog[r]} :
            r \in Ranks}

SwapRankStep(r) == SwapConnection(r) \/ SwapReceive(r) \/ SwapFinish(r)

SpecSwapFair ==
  SwapInit /\ [][SwapNext]_vars /\ \A r \in Ranks : WF_vars(SwapRankStep(r))

\* what rank r received came from the other side of the connection it was
\* handling, for the field it was exchanging
ReceivedFromPartner(r, i) ==
  LET e == recvLog[r][i]
  IN /\ e.got.conn = e.conn
     /\ e.got.field = e.field
     /\ e.got.from = PartnerRank(connections[e.conn], r)
     /\ e.got.from # r

\* C25: for every assignment of blocks to ranks and every connection list, an
\* exchange operation completes on all ranks, every message received was sent
\* by the partner side of the connection being handled, and when all ranks
\* have completed no sent message is left unreceived.
C25_ExchangeCompletes ==
  /\ <>(\A r \in Ranks : swapPc[r] = "done")
  /\ [](\A r \in Ranks : \A i \in DOMAIN recvLog[r] : ReceivedFromPartner(r, i))
  /\ []((\A r \in Ranks : swapPc[r] = "done") =>
          \A p \in Ranks \X Ranks : channel[p] = <<>>)

\* witness of C25: all ranks completed an exchange with two cross-rank
\* connections, in which both ranks received
C25_Witness ==
  /\ \A r \in Ranks : swapPc[r] = "done"
  /\ \A r \in Ranks : Len(recvLog[r]) >= 2
  /\ \E c1, c2 \in DOMAIN connections :
       /\ c1 # c2
       /\ RankFirst(connections[c1]) # RankSecond(connections[c1])
       /\ RankFirst(connections[c2]) # RankSecond(connections[c2])
       /\ RankFirst(connections[c1]) # RankFirst(connections[c2])

(***************************************************************************)
(* gridLevel::CalcResidual                                                 *)
(***************************************************************************)
\* this->NumBlocks() on rank r
NumLocalBlocks(r) == Cardinality({b \in Blocks : blkRank[b] = r})

\* mutant: the turbulence variables are swapped before the gradients
ResidualNextPhaseTurbFirst(phase) ==
  CASE phase = "noSource" -> IF isRANS THEN "swapTurb" ELSE "swapGrad"
    [] phase = "swapTurb" -> "swapGrad"
    [] phase = "swapGrad" -> IF isRANS \/ isReacting THEN "srcTerms" ELSE "done"
    [] phase = "srcTerms" -> "done"

\* the statement sequence of CalcResidual: which loop follows a finished loop
ResidualNextPhase(phase) ==
  CASE phase = "noSource" -> "swapGrad"
    [] phase = "swapGrad" ->
         IF isRANS THEN "swapTurb"
         ELSE IF isRANS \/ isReacting THEN "srcTerms" ELSE "done"
    [] phase = "swapTurb" -> IF isRANS \/ isReacting THEN "srcTerms" ELSE "done"
    [] phase = "srcTerms" -> "done"

ResInit ==
  /\ blkRank \in [BlockIds(NumBlocks) -> Ranks]
  /\ localPos \in LocalPositions(blkRank)
  /\ connections \in InterblockLists
  /\ isTurbulent = FALSE
  /\ NotResIdle
  /\ resRank \in {r \in Ranks : NumLocalBlocks(r) > 0}
  /\ isRANS \in BOOLEAN
  /\ isReacting \in BOOLEAN
  /\ resPhase = "noSource"
  /\ resIdx = 0
  /\ resLog = <<>>

\* leave the current loop when its last element has been handled
ResAdvance(idx, last) ==
  IF idx >= last
  THEN /\ resPhase' = ResidualNextPhase(resPhase)
       /\ resIdx' = 0
  ELSE /\ resIdx' = idx + 1
       /\ UNCHANGED resPhase

\* blocks_[bb].CalcResidualNoSource(phys, inp, solver_->A(bb))
CalcResidualNoSource ==
  /\ resPhase = "noSource"
  /\ resLog' = Append(resLog, <<"noSource", BlockAt(resRank, resIdx)>>)
  /\ ResAdvance(resIdx, NumLocalBlocks(resRank) - 1)
  /\ UNCHANGED <<resRank, isRANS, isReacting>>
  /\ UNCHANGED notResVars

\* one connection of the loop of a swap function called by CalcResidual
ResSwapStep(phase, event) ==
  /\ resPhase = phase
  /\ LET conn == connections[resIdx + 1]
     IN resLog' = IF SwapBranch(conn, resRank) = "none" THEN resLog
                  ELSE Append(resLog, <<event, resIdx + 1>>)
  /\ ResAdvance(resIdx, Len(connections) - 1)
  /\ UNCHANGED <<resRank, isRANS, isReacting>>
  /\ UNCHANGED notResVars

SwapEddyViscAndGradients == ResSwapStep("swapGrad", "swapGrad")

SwapTurbVars == ResSwapStep("swapTurb", "swapTurb")

\* blocks_[bb].CalcSrcTerms(phys, inp, solver_->A(bb))
CalcSrcTerms ==
  /\ resPhase = "srcTerms"
  /\ resLog' = Append(resLog, <<"srcTerms", BlockAt(resRank, resIdx)>>)
  /\ ResAdvance(resIdx, NumLocalBlocks(resRank) - 1)
  /\ UNCHANGED <<resRank, isRANS, isReacting>>
  /\ UNCHANGED notResVars

ResNext ==
  \/ CalcResidualNoSource
  \/ SwapEddyViscAndGradients
  \/ SwapTurbVars
  \/ CalcSrcTerms

SpecResid == ResInit /\ [][ResNext]_vars

LocalBlockSet(r) == {b \in Blocks : blkRank[b] = r}

EventsBefore(i, event) == {resLog[j][2] : j \in {k \in 1 .. (i - 1) : resLog[k][1] = event}}

EventIndices(event) == {i \in DOMAIN resLog : resLog[i][1] = event}

\* C3: within one CalcResidual call, CalcResidualNoSource has completed on
\* every local block before any gradient / eddy-viscosity swap starts; the
\* turbulence-variable swap happens only when RANS is active and after the
\* gradient swaps; source terms are computed only if RANS or reacting
\* chemistry is active, only after all the swaps, and then for every block.
C3_ResidualOrdering ==
  /\ \A i \in EventIndices("swapGrad") :
       /\ EventsBefore(i, "noSource") = LocalBlockSet(resRank)
       /\ EventsBefore(i, "swapTurb") = {}
       /\ EventsBefore(i, "srcTerms") = {}
  /\ \A i \in EventIndices("noSource") :
       EventsBefore(i, "swapGrad") \cup EventsBefore(i, "swapTurb")
         \cup EventsBefore(i, "srcTerms") = {}
  /\ \A i \in EventIndices("swapTurb") :
       /\ isRANS
       /\ EventsBefore(i, "srcTerms") = {}
       /\ EventsBefore(i, "noSource") = LocalBlockSet(resRank)
       /\ EventsBefore(i, "swapGrad") =
            {ci \in 1 .. Len(connections) : SwapBranch(connections[ci], resRank) # "none"}
  /\ \A i \in EventIndices("srcTerms") :
       /\ isRANS \/ isReacting
       /\ EventsBefore(i, "noSource") = LocalBlockSet(resRank)
       /\ EventsBefore(i, "swapGrad") =
            {ci \in 1 .. Len(connections) : SwapBranch(connections[ci], resRank) # "none"}
       /\ isRANS => EventsBefore(i, "swapTurb") = EventsBefore(i, "swapGrad")
  /\ resPhase = "done" =>
       /\ {resLog[i][2] : i \in EventIndices("noSource")} = LocalBlockSet(resRank)
       /\ (isRANS \/ isReacting) =>
            {resLog[i][2] : i \in EventIndices("srcTerms")} = LocalBlockSet(resRank)
       /\ ~(isRANS \/ isReacting) => EventIndices("srcTerms") = {}
       /\ ~isRANS => EventIndices("swapTurb") = {}

\* witness of C3: a RANS residual with gradient swaps, turbulence swaps and
\* source terms has finished
C3_Witness ==
  /\ resPhase = "done"
  /\ isRANS
  /\ EventIndices("swapGrad") # {}
  /\ EventIndices("swapTurb") # {}
  /\ EventIndices("srcTerms") # {}

(***************************************************************************)
(* Solution storage and gridLevel::UpdateBlocks                            *)
(***************************************************************************)
MaxNonlinear == 2
MaxTimeSteps == 1

\* primitive states <<rho, u>> and solver updates <<d rho, d (rho u)>>
Prims == {1, 2} \X {0, 1}
Updates == {<<0, 0>>, <<0, 2>>}

\* PrimToCons: density, momentum
ConsVars(prim) == <<prim[1], prim[1] * prim[2]>>

\* primitive::primitive(conserved, phys): velocity = momentum / rho
PrimFromCons(cons) == <<cons[1], cons[2] \div cons[1]>>

\* UpdatePrimWithCons: convert to conserved, add du, convert back
UpdatePrimWithCons(prim, du) ==
  LET cons == ConsVars(prim)
  IN PrimFromCons(<<cons[1] + du[1], cons[2] + du[2]>>)

\* mutant: the time-n solution is rotated at every nonlinear iteration
RotateNowAlways(iter) == isMultilevelInTime

\* the condition under which UpdateBlocks calls AssignSolToTimeNm1
RotateNow(iter) == isMultilevelInTime /\ iter = nonlinearIterations - 1

UpdInit ==
  /\ NotUpdIdle
  /\ state \in [Blocks -> Prims]
  /\ consVarsN = [b \in Blocks |-> ConsVars(state[b])]
  /\ consVarsNm1 \in {[b \in Blocks |-> ConsVars(q)] : q \in {<<1, 1>>, <<2, 0>>}}
  /\ solverX = [b \in Blocks |-> <<0, 0>>]
  /\ mm = 0
  /\ nonlinearIterations \in 1 .. MaxNonlinear
  /\ isMultilevelInTime \in BOOLEAN
  /\ updPc = "solve"
  /\ timeStep = 0
  /\ updHist = NoHist

\* the part of a nonlinear iteration that precedes UpdateBlocks: the time-n
\* solution is stored at the first iteration and the linear solver leaves
\* an update in X
SolveStep ==
  /\ updPc = "solve"
  /\ consVarsN' = IF mm = 0 THEN [b \in Blocks |-> ConsVars(state[b])]
                  ELSE consVarsN
  /\ solverX' \in [Blocks -> Updates]
  /\ updPc' = "update"
  /\ UNCHANGED <<state, consVarsNm1, mm, nonlinearIterations,
                 isMultilevelInTime, timeStep, updHist>>
  /\ UNCHANGED notUpdVars

\* gridLevel::UpdateBlocks(inp, phys, mm, residL2, residLinf), implicit
UpdateBlocks ==
  /\ updPc = "update"
  /\ state' = [b \in Blocks |-> UpdatePrimWithCons(state[b], solverX[b])]
  /\ consVarsNm1' = [b \in Blocks |->
        IF RotateNow(mm) THEN consVarsN[b] ELSE consVarsNm1[b]]
  /\ updHist' = [mm |-> mm, stateBefore |-> state, nBefore |-> consVarsN,
                 nm1Before |-> consVarsNm1, x |-> solverX]
  /\ IF mm = nonlinearIterations - 1
     THEN /\ mm' = 0
          /\ timeStep' = timeStep + 1
          /\ updPc' = IF timeStep + 1 >= MaxTimeSteps THEN "done" ELSE "solve"
     ELSE /\ mm' = mm + 1
          /\ updPc' = "solve"
          /\ UNCHANGED timeStep
  /\ UNCHANGED <<consVarsN, solverX, nonlinearIterations, isMultilevelInTime>>
  /\ UNCHANGED notUpdVars

UpdNext ==
  \/ SolveStep
  \/ UpdateBlocks

SpecUpdate == UpdInit /\ [][UpdNext]_vars

\* the last UpdateBlocks call applied X(b) to every block
UpdateApplied ==
  \A b \in Blocks :
    state[b] = UpdatePrimWithCons(updHist.stateBefore[b], updHist.x[b])

\* C4 as stated: UpdateBlocks applies X(b) to every block at every nonlinear
\* iteration and rotates time n into time n-1 at, and only at, the last
\* nonlinear iteration.
C4_RotateAtLastIteration ==
  updHist # NoHist =>
    /\ UpdateApplied
    /\ \A b \in Blocks :
         consVarsNm1[b] = IF updHist.mm = nonlinearIterations - 1
                          THEN updHist.nBefore[b]
                          ELSE updHist.nm1Before[b]

\* C4 amended: the rotation happens at the last nonlinear iteration only when
\* the time integration is multilevel in time; in every other call the
\* time-(n-1) solution of every block is left unchanged.
C4_RotateIfMultilevel ==
  updHist # NoHist =>
    /\ UpdateApplied
    /\ \A b \in Blocks :
         consVarsNm1[b] =
           IF isMultilevelInTime /\ updHist.mm = nonlinearIterations - 1
           THEN updHist.nBefore[b]
           ELSE updHist.nm1Before[b]

\* witness of C4: a multilevel scheme with more than one nonlinear iteration
\* has rotated a time-n solution that differs from the old time n-1, after a
\* nonzero update
C4_Witness ==
  /\ updHist # NoHist
  /\ isMultilevelInTime
  /\ nonlinearIterations > 1
  /\ updHist.mm = nonlinearIterations - 1
  /\ updHist.nBefore # updHist.nm1Before
  /\ consVarsNm1 = updHist.nBefore
  /\ state # updHist.stateBefore

(***************************************************************************)
(* gridLevel::GetGridLevel: gather of the local blocks on root             *)
(***************************************************************************)
NumGatherBlocks == 3

\* localPos of GetGridLevel: one <<LocalPosition, GlobalPos>> pair per block
\* of local.blocks_, in the order of that vector
LocalPosPairs(r) ==
  [i \in 1 .. Cardinality({b \in Blocks : blkRank[b] = r}) |->
     <<i - 1, BlockAt(r, i - 1)>>]

\* std::sort of the pairs by their second component
RECURSIVE SortByGlobalPos(_)
SortByGlobalPos(pairs) ==
  IF pairs = {} THEN <<>>
  ELSE LET least == CHOOSE p \in pairs : \A q \in pairs : p[2] <= q[2]
       IN <<least>> \o SortByGlobalPos(pairs \ {least})

\* mutant: the blocks are sent in the order of the local vector
SendOrderUnsorted(r) == LocalPosPairs(r)

\* the order in which a non-root rank sends its blocks
SendOrder(r) ==
  LET pairs == LocalPosPairs(r)
  IN SortByGlobalPos({pairs[i] : i \in DOMAIN pairs})

GatherInit ==
  /\ blkRank \in [BlockIds(NumGatherBlocks) -> Ranks]
  /\ localPos \in LocalPositions(blkRank)
  /\ NotGatherIdle
  /\ gatherPc = [r \in Ranks |-> "run"]
  /\ gatherIdx = [r \in Ranks |-> IF r = ROOTP THEN 0 ELSE 1]
  /\ globalData = [g \in Blocks |-> -1]
  /\ gatherChan = [r \in Ranks |-> <<>>]
  /\ gatherSent = [r \in Ranks |-> <<>>]

\* a non-root rank is at a send of its loop
GatherSendReady(r) ==
  /\ r # ROOTP
  /\ gatherPc[r] = "run"
  /\ gatherIdx[r] <= Len(SendOrder(r))

\* a non-root rank is past its loop
GatherSendDoneReady(r) ==
  /\ r # ROOTP
  /\ gatherPc[r] = "run"
  /\ gatherIdx[r] > Len(SendOrder(r))

\* root is at a block of its own, or at a block whose message has been sent
GatherRootReady ==
  /\ gatherPc[ROOTP] = "run"
  /\ gatherIdx[ROOTP] < Cardinality(Blocks)
  /\ \/ blkRank[gatherIdx[ROOTP]] = ROOTP
     \/ FirstWithTag(gatherChan[blkRank[gatherIdx[ROOTP]]], gatherIdx[ROOTP]) > 0

\* root is past its loop
GatherRootDoneReady ==
  /\ gatherPc[ROOTP] = "run"
  /\ gatherIdx[ROOTP] >= Cardinality(Blocks)

\* PackSendSolMPI of the next block of non-root rank r: MPI_Send to root with
\* the block's global position as tag. A standard-mode send either returns
\* once the message is buffered or blocks until root has received it.
GatherSend(r) ==
  /\ GatherSendReady(r)
  /\ LET lp == SendOrder(r)[gatherIdx[r]]
         blk == BlockAt(r, lp[1])
     IN \E sync \in BOOLEAN :
          /\ gatherChan' = [gatherChan EXCEPT ![r] = Append(@,
                 [tag |-> blk, data |-> blk, sync |-> sync])]
          /\ gatherSent' = [gatherSent EXCEPT ![r] = Append(@, blk)]
          /\ gatherPc' = [gatherPc EXCEPT ![r] = IF sync THEN "blocked" ELSE "run"]
          /\ gatherIdx' = [gatherIdx EXCEPT ![r] = @ + 1]
  /\ UNCHANGED <<blkRank, localPos, globalData>>
  /\ UNCHANGED notGatherVars

\* a rank has sent all its blocks
GatherSendDone(r) ==
  /\ GatherSendDoneReady(r)
  /\ gatherPc' = [gatherPc EXCEPT ![r] = "done"]
  /\ UNCHANGED <<blkRank, localPos, gatherIdx, globalData, gatherChan, gatherSent>>
  /\ UNCHANGED notGatherVars

\* one iteration of root's loop over all global blocks: copy a block root owns
\* itself, or receive the block from its rank (RecvUnpackSolMPI: MPI_Probe and
\* MPI_Recv on source rank_ and tag globalPos_)
GatherRoot ==
  /\ GatherRootReady
  /\ LET g == gatherIdx[ROOTP]
         src == blkRank[g]
         q == gatherChan[src]
         pos == FirstWithTag(q, g)
     IN IF src = ROOTP
        THEN /\ globalData' = [globalData EXCEPT ![g] = BlockAt(ROOTP, LocalPosition(g))]
             /\ UNCHANGED <<gatherChan, gatherPc>>
        ELSE /\ globalData' = [globalData EXCEPT ![g] = q[pos].data]
             /\ gatherChan' = [gatherChan EXCEPT ![src] = RemoveAt(q, pos)]
             /\ gatherPc' = IF q[pos].sync
                            THEN [gatherPc EXCEPT ![src] = "run"]
                            ELSE gatherPc
  /\ gatherIdx' = [gatherIdx EXCEPT ![ROOTP] = @ + 1]
  /\ UNCHANGED <<blkRank, localPos, gatherSent>>
  /\ UNCHANGED notGatherVars

\* root has handled all global blocks
GatherRootDone ==
  /\ GatherRootDoneReady
  /\ gatherPc' = [gatherPc EXCEPT ![ROOTP] = "done"]
  /\ UNCHANGED <<blkRank, localPos, gatherIdx, globalData, gatherChan, gatherSent>>
  /\ UNCHANGED notGatherVars

GatherNext ==
  \/ \E r \in Ranks : GatherSend(r)
  \/ \E r \in Ranks : GatherSendDone(r)
  \/ GatherRoot
  \/ GatherRootDone

SpecGather == GatherInit /\ [][GatherNext]_vars

GatherDone == \A r \in Ranks : gatherPc[r] = "done"

\* some rank can take its next step
GatherCanStep ==
  \/ \E r \in Ranks : GatherSendReady(r) \/ GatherSendDoneReady(r)
  \/ GatherRootReady
  \/ GatherRootDoneReady

\* C5: every non-root rank sends its blocks in strictly increasing global
\* position, whatever their local order; the gather never deadlocks; and when
\* it has completed every global block on root holds the data of the local
\* block with the same global position.
C5_GatherCompletes ==
  /\ \A r \in Ranks : \A i, j \in DOMAIN gatherSent[r] :
       i < j => gatherSent[r][i] < gatherSent[r][j]
  /\ GatherDone \/ GatherCanStep
  /\ GatherDone => \A g \in Blocks : globalData[g] = g

\* witness of C5: the gather completed although a non-root rank held two
\* blocks whose local order is the reverse of their global order, and no send
\* was buffered
C5_Witness ==
  /\ GatherDone
  /\ \E b, c \in Blocks :
       /\ blkRank[b] = blkRank[c]
       /\ blkRank[b] # ROOTP
       /\ b < c
       /\ localPos[b] > localPos[c]
  /\ \A g \in Blocks : globalData[g] = g

(***************************************************************************)
(* gridLevel::SendGridLevel: root hands every rank its blocks and the      *)
(* connections                                                             *)
(***************************************************************************)
\* a default constructed connection, the filling of vector::resize
DefaultConnection == [blockFirst |-> 0, blockSecond |-> 0, interblock |-> FALSE]

\* mutant: the receiving array is left at the size it has
ResizeNot(seq, n) == seq

\* std::vector::resize
Resize(seq, n) ==
  [i \in 1 .. n |-> IF i <= Len(seq) THEN seq[i] ELSE DefaultConnection]

\* what MPI_Bcast leaves in a receive buffer of the length of buf
BcastInto(buf, sent) ==
  [i \in 1 .. Len(buf) |-> IF i <= Len(sent) THEN sent[i] ELSE buf[i]]

\* the connections root holds: 0 .. MaxConns of them, each between a block
\* and the next
ChainOfConnections(n) ==
  [i \in 1 .. n |-> [blockFirst |-> (i - 1) % NumBlocks,
                     blockSecond |-> i % NumBlocks, interblock |-> TRUE]]

SendInit ==
  /\ blkRank \in [BlockIds(NumBlocks) -> Ranks]
  /\ localPos \in LocalPositions(blkRank)
  /\ connections \in {ChainOfConnections(n) : n \in 0 .. MaxConns}
  /\ NotSendIdle
  /\ sendPc = [r \in Ranks |-> "blocks"]
  /\ sendIdx = [r \in Ranks |-> 0]
  /\ geomChan = [r \in Ranks |-> <<>>]
  /\ localBlocks = [r \in Ranks |-> [lp \in 0 .. (NumLocalBlocks(r) - 1) |-> -1]]
  /\ numCon = [r \in Ranks |-> 0]
  /\ localConns = [r \in Ranks |-> <<>>]
  /\ bcastCount = -1
  /\ bcastArray = <<>>
  /\ sendLog = [r \in Ranks |-> <<>>]

sendConnVars == <<numCon, localConns, bcastCount, bcastArray, sendLog>>

\* one iteration of root's loop over all blocks: keep a block of its own, or
\* PackSendGeomMPI (a standard-mode MPI_Send) to the block's rank
SendBlockRoot ==
  /\ sendPc[ROOTP] = "blocks"
  /\ sendIdx[ROOTP] < Cardinality(Blocks)
  /\ LET g == sendIdx[ROOTP]
     IN IF blkRank[g] = ROOTP
        THEN /\ localBlocks' = [localBlocks EXCEPT ![ROOTP][LocalPosition(g)] = g]
             /\ UNCHANGED <<geomChan, sendPc>>
        ELSE /\ \E sync \in BOOLEAN :
                  /\ geomChan' = [geomChan EXCEPT ![blkRank[g]] =
                                    Append(@, [blk |-> g, sync |-> sync])]
                  /\ sendPc' = [sendPc EXCEPT ![ROOTP] =
                                    IF sync THEN "blocked" ELSE "blocks"]
             /\ UNCHANGED localBlocks
  /\ sendIdx' = [sendIdx EXCEPT ![ROOTP] = @ + 1]
  /\ UNCHANGED <<blkRank, localPos, connections>>
  /\ UNCHANGED sendConnVars
  /\ UNCHANGED notSendVars

\* one iteration of a non-root rank's loop: RecvUnpackGeomMPI and store the
\* block at its local position
SendBlockRecv(r) ==
  /\ r # ROOTP
  /\ sendPc[r] = "blocks"
  /\ sendIdx[r] < NumLocalBlocks(r)
  /\ geomChan[r] # <<>>
  /\ LET msg == Head(geomChan[r])
     IN /\ localBlocks' = [localBlocks EXCEPT ![r][LocalPosition(msg.blk)] = msg.blk]
        /\ sendPc' = IF msg.sync THEN [sendPc EXCEPT ![ROOTP] = "blocks"] ELSE sendPc
  /\ geomChan' = [geomChan EXCEPT ![r] = Tail(@)]
  /\ sendIdx' = [sendIdx EXCEPT ![r] = @ + 1]
  /\ UNCHANGED <<blkRank, localPos, connections>>
  /\ UNCHANGED sendConnVars
  /\ UNCHANGED notSendVars

\* the block loop of rank r is over
SendBlocksDone(r) ==
  /\ sendPc[r] = "blocks"
  /\ sendIdx[r] >= (IF r = ROOTP THEN Cardinality(Blocks) ELSE NumLocalBlocks(r))
  /\ sendPc' = [sendPc EXCEPT ![r] = "bcastCount"]
  /\ UNCHANGED <<blkRank, localPos, connections>>
  /\ UNCHANGED <<sendIdx, geomChan, localBlocks>>
  /\ UNCHANGED sendConnVars
  /\ UNCHANGED notSendVars

\* root copies the global connections; every rank reads numCon from its local
\* array and takes part in the broadcast of numCon
SendBcastCount(r) ==
  /\ sendPc[r] = "bcastCount"
  /\ IF r = ROOTP
     THEN /\ localConns' = [localConns EXCEPT ![r] = connections]
          /\ numCon' = [numCon EXCEPT ![r] = Len(connections)]
          /\ bcastCount' = Len(connections)
     ELSE /\ bcastCount # -1
          /\ numCon' = [numCon EXCEPT ![r] = bcastCount]
          /\ UNCHANGED <<localConns, bcastCount>>
  /\ sendLog' = [sendLog EXCEPT ![r] = Append(@, <<"count", Len(localConns[r])>>)]
  /\ sendPc' = [sendPc EXCEPT ![r] = "resize"]
  /\ UNCHANGED <<blkRank, localPos, connections>>
  /\ UNCHANGED <<sendIdx, geomChan, localBlocks, bcastArray>>
  /\ UNCHANGED notSendVars

\* local.connections_.resize(numCon)
SendResize(r) ==
  /\ sendPc[r] = "resize"
  /\ localConns' = [localConns EXCEPT ![r] = Resize(@, numCon[r])]
  /\ sendPc' = [sendPc EXCEPT ![r] = "bcastArray"]
  /\ UNCHANGED <<blkRank, localPos, connections>>
  /\ UNCHANGED <<sendIdx, geomChan, localBlocks, numCon, bcastCount, bcastArray, sendLog>>
  /\ UNCHANGED notSendVars

\* the broadcast of the connection array, of local.connections_.size() entries
SendBcastArray(r) ==
  /\ sendPc[r] = "bcastArray"
  /\ IF r = ROOTP
     THEN /\ bcastArray' = <<localConns[r]>>
          /\ UNCHANGED localConns
     ELSE /\ bcastArray # <<>>
          /\ localConns' = [localConns EXCEPT ![r] = BcastInto(@, bcastArray[1])]
          /\ UNCHANGED bcastArray
  /\ sendLog' = [sendLog EXCEPT ![r] = Append(@, <<"array", Len(localConns[r])>>)]
  /\ sendPc' = [sendPc EXCEPT ![r] = "done"]
  /\ UNCHANGED <<blkRank, localPos, connections>>
  /\ UNCHANGED <<sendIdx, geomChan, localBlocks, numCon, bcastCount>>
  /\ UNCHANGED notSendVars

SendNext ==
  \/ SendBlockRoot
  \/ \E r \in Ranks : SendBlockRecv(r)
  \/ \E r \in Ranks : SendBlocksDone(r)
  \/ \E r \in Ranks : SendBcastCount(r)
  \/ \E r \in Ranks : SendResize(r)
  \/ \E r \in Ranks : SendBcastArray(r)

SpecSend == SendInit /\ [][SendNext]_vars

\* C6: on every rank the broadcast of the number of connections comes before
\* the broadcast of the connection array, and a non-root rank enters the
\* array broadcast with a receiving array of exactly the broadcast count.
C6_CountBeforeArray ==
  \A r \in Ranks :
    /\ \A i \in DOMAIN sendLog[r] :
         sendLog[r][i][1] = "array" =>
           /\ i = 2
           /\ sendLog[r][1][1] = "count"
           /\ r # ROOTP => sendLog[r][i][2] = bcastCount
    /\ (r # ROOTP /\ sendPc[r] = "bcastArray") => Len(localConns[r]) = bcastCount

\* witness of C6: a non-root rank went through both broadcasts of a non-empty
\* connection array and holds root's connections
C6_Witness ==
  \E r \in Ranks :
    /\ r # ROOTP
    /\ sendPc[r] = "done"
    /\ Len(sendLog[r]) = 2
    /\ bcastCount > 0
    /\ localConns[r] = connections

(***************************************************************************)
(* gridLevel::Restriction: fine level to coarse level                      *)
(***************************************************************************)
\* the fine cells under one coarse cell, by their primitive states
FineBlocks ==
  {<<<<1, 0>>, <<1, 0>>>>, <<<<1, 1>>, <<3, 1>>>>, <<<<2, 0>>, <<2, 2>>>>,
   <<<<1, 0>>, <<3, 2>>>>}

\* BlockRestriction of the states: the volume weighted mean of the fine cells
\* (two fine cells of equal volume)
BlockRestriction(fine) ==
  <<(fine[1][1] + fine[2][1]) \div 2, (fine[1][2] + fine[2][2]) \div 2>>

\* mutant: the time-n solution is not stored
StoreTimeNNever(iter) == FALSE

\* whether Restriction stores the coarse solution as time n
StoreTimeN(iter) == iter = 0

\* the quantities the coarse level holds per block besides its state
CoarseQuantities == {"ghost", "resid", "dt", "diag", "x", "axmb"}

forcingVars == <<fineResid, fineUpdate, coarseSys, mgForcing, forceIdx>>

\* the residuals of the fine cells under each coarse cell
FineResiduals ==
  {[b \in Blocks |-> <<b + 1, 2>>], [b \in Blocks |-> <<0 - 3, b>>]}

\* the ghost cells of a block follow from the state of its physical cells
GhostState(st) == st[1] + st[2]

\* the residual of a block follows from its physical and ghost cells
Residual(st, ghost) == (2 * st[1]) + ghost

\* the time step of a block follows from its state
BlockTimeStep(st) == st[1] + 1

\* the inverted main diagonal with the volume and time term added
InvertedDiagonal(dt) == dt + 2

\* the restricted update of the linear solver
RestrictUpdate(x) == (x[1] + x[2]) \div 2

\* A x - b of one block of a level
AXmB(diag, x, resid) == (diag * x) - resid

\* BlockRestriction of the residual: the sum over the fine cells of a coarse
\* cell replaces what the coarse array held
BlockRestrictionSum(fine, held) == fine[1] + fine[2]

\* mutant: the forcing term is the restricted residual alone
ForcingTermResidualOnly(axmb, restricted) == restricted

\* the forcing term of a cell: A x - b + r
ForcingTerm(axmb, restricted) == axmb + restricted

RestrictInit ==
  /\ NotRestrictIdle
  /\ fineState \in [Blocks -> FineBlocks]
  /\ state \in [Blocks -> {<<1, 0>>, <<2, 1>>}]
  /\ consVarsN \in [Blocks -> {ConsVars(<<1, 1>>), ConsVars(<<2, 1>>)}]
  /\ consVarsNm1 = [b \in Blocks |-> <<0, 0>>]
  /\ solverX = [b \in Blocks |-> <<0, 0>>]
  /\ mm \in 0 .. (MaxNonlinear - 1)
  /\ nonlinearIterations = MaxNonlinear
  /\ isMultilevelInTime = FALSE
  /\ updPc = "idle"
  /\ timeStep = 0
  /\ updHist = NoHist
  /\ restrictPc = "loop"
  /\ restrictIdx = 0
  /\ restrictHist = [mm |-> mm, stateBefore |-> state, nBefore |-> consVarsN]
  /\ fineResid \in FineResiduals
  /\ fineUpdate = [b \in Blocks |-> <<2 * b, 2 * b + 4>>]
  /\ coarseSys = [q \in CoarseQuantities |-> [b \in Blocks |-> 7]]
  /\ mgForcing \in {[b \in Blocks |-> f] : f \in {0, 7}}
  /\ forceIdx = 0

\* one iteration of the loop over the blocks: restrict the state of block ii
\* and, when mm is 0, gridLevel::AssignSolToTimeN over all coarse blocks
RestrictBlock ==
  /\ restrictPc = "loop"
  /\ restrictIdx < Cardinality(Blocks)
  /\ LET restricted == [state EXCEPT ![restrictIdx] =
                          BlockRestriction(fineState[restrictIdx])]
     IN /\ state' = restricted
        /\ consVarsN' = IF StoreTimeN(mm)
                        THEN [b \in Blocks |-> ConsVars(restricted[b])]
                        ELSE consVarsN
  /\ restrictIdx' = restrictIdx + 1
  /\ UNCHANGED <<mm, fineState, restrictPc, restrictHist, forcingVars>>
  /\ UNCHANGED notRestrictVars

\* the loop is over
RestrictLoopDone ==
  /\ restrictPc = "loop"
  /\ restrictIdx >= Cardinality(Blocks)
  /\ restrictPc' = "bcs"
  /\ UNCHANGED <<state, consVarsN, mm, fineState, restrictIdx, restrictHist,
                 forcingVars>>
  /\ UNCHANGED notRestrictVars

\* the coarse level's steps between the block loop and the forcing term leave
\* the physical cells of state_ and consVarsN_ alone
CoarseStep(pc, next, quantity, value(_)) ==
  /\ restrictPc = pc
  /\ restrictPc' = next
  /\ coarseSys' = [coarseSys EXCEPT ![quantity] = [b \in Blocks |-> value(b)]]
  /\ UNCHANGED <<state, consVarsN, mm, fineState, restrictIdx, restrictHist,
                 fineResid, fineUpdate, mgForcing, forceIdx>>
  /\ UNCHANGED notRestrictVars

\* coarse.GetBoundaryConditions(inp, phys, rank)
RestrictGetBoundaryConditions ==
  LET value(b) == GhostState(state[b])
  IN CoarseStep("bcs", "resid", "ghost", value)

\* coarse.CalcResidual(phys, inp, rank, ...)
RestrictCalcResidual ==
  LET value(b) == Residual(state[b], coarseSys["ghost"][b])
  IN CoarseStep("resid", "dt", "resid", value)

\* coarse.CalcTimeStep(inp)
RestrictCalcTimeStep ==
  LET value(b) == BlockTimeStep(state[b])
  IN CoarseStep("dt", "diag", "dt", value)

\* coarse.InvertDiagonal(inp)
RestrictInvertDiagonal ==
  LET value(b) == InvertedDiagonal(coarseSys["dt"][b])
  IN CoarseStep("diag", "solver", "diag", value)

\* solver_->Restriction(coarse.solver_, ...): the update of the coarse solver
\* becomes the restricted update of the fine solver
RestrictSolverUpdate ==
  LET value(b) == RestrictUpdate(fineUpdate[b])
  IN CoarseStep("solver", "axmb", "x", value)

\* const auto axmb = coarse.AXmB(phys, inp)
RestrictAXmB ==
  LET value(b) == AXmB(coarseSys["diag"][b], coarseSys["x"][b],
                       coarseSys["resid"][b])
  IN CoarseStep("axmb", "force", "axmb", value)

\* one iteration of the loop over bb: the restricted fine residual goes into
\* the forcing term, then A x - b is added in every cell of the forcing term
RestrictForcing ==
  /\ restrictPc = "force"
  /\ forceIdx < Cardinality(Blocks)
  /\ mgForcing' = [mgForcing EXCEPT ![forceIdx] =
         ForcingTerm(coarseSys["axmb"][forceIdx],
                     BlockRestrictionSum(fineResid[forceIdx], mgForcing[forceIdx]))]
  /\ forceIdx' = forceIdx + 1
  /\ UNCHANGED <<state, consVarsN, mm, fineState, restrictPc, restrictIdx,
                 restrictHist, fineResid, fineUpdate, coarseSys>>
  /\ UNCHANGED notRestrictVars

\* the forcing term loop is over and Restriction returns
RestrictReturn ==
  /\ restrictPc = "force"
  /\ forceIdx >= Cardinality(Blocks)
  /\ restrictPc' = "done"
  /\ UNCHANGED <<state, consVarsN, mm, fineState, restrictIdx, restrictHist,
                 forcingVars>>
  /\ UNCHANGED notRestrictVars

RestrictNext ==
  \/ RestrictBlock
  \/ RestrictLoopDone
  \/ RestrictGetBoundaryConditions
  \/ RestrictCalcResidual
  \/ RestrictCalcTimeStep
  \/ RestrictInvertDiagonal
  \/ RestrictSolverUpdate
  \/ RestrictAXmB
  \/ RestrictForcing
  \/ RestrictReturn

SpecRestrict == RestrictInit /\ [][RestrictNext]_vars

\* C10: when Restriction returns after a call with mm = 0, the time-n solution
\* of every coarse block is the conserved form of that block's restricted
\* state; after a call with mm # 0 the time-n solution is as it was at entry.
C10_TimeNAfterRestriction ==
  restrictPc = "done" =>
    IF mm = 0
    THEN \A b \in Blocks :
           /\ state[b] = BlockRestriction(fineState[b])
           /\ consVarsN[b] = ConsVars(BlockRestriction(fineState[b]))
    ELSE consVarsN = restrictHist.nBefore

\* witness of C10: Restriction returned from a call with mm = 0 in which the
\* restriction changed the state of the last block and the time-n solution of
\* every block
C10_Witness ==
  /\ restrictPc = "done"
  /\ mm = 0
  /\ \A b \in Blocks :
       /\ consVarsN[b] # restrictHist.nBefore[b]
       /\ consVarsN[b] # ConsVars(restrictHist.stateBefore[b])
       /\ state[b] # restrictHist.stateBefore[b]

\* A x - b of block b of the coarse level when boundary conditions, residual,
\* time step and inverted diagonal all come from the restricted state and the
\* solver update is the restricted one
CoarseAXmB(b) ==
  LET rs == BlockRestriction(fineState[b])
  IN AXmB(InvertedDiagonal(BlockTimeStep(rs)), RestrictUpdate(fineUpdate[b]),
          Residual(rs, GhostState(rs)))

\* C11: on return from Restriction the forcing term of every coarse block is,
\* in its physical cell, A x - b of the coarse level (computed after boundary
\* conditions, residual, time step, inverted diagonal and the restricted
\* solver update) plus the fine residual restricted onto that cell.
C11_ForcingTerm ==
  restrictPc = "done" =>
    \A b \in Blocks :
      mgForcing[b] = CoarseAXmB(b) + (fineResid[b][1] + fineResid[b][2])

\* witness of C11: Restriction returned, and in every block the forcing term
\* differs from what it held before, from the restricted residual alone and
\* from A x - b alone
C11_Witness ==
  /\ restrictPc = "done"
  /\ \A b \in Blocks :
       /\ mgForcing[b] \notin {0, 7}
       /\ mgForcing[b] # fineResid[b][1] + fineResid[b][2]
       /\ mgForcing[b] # CoarseAXmB(b)
       /\ CoarseAXmB(b) # AXmB(7, 7, 7)

(***************************************************************************)
(* procBlock::PutGeomSlice: insertion of a geometry slice into the ghost   *)
(* cells of a block                                                        *)
(***************************************************************************)
MaxGhosts == 1
NumCells == 1

Axes == <<"i", "j", "k">>
AxisIndex(a) == IF a = "i" THEN 1 ELSE IF a = "j" THEN 2 ELSE 3

\* the connection: surfaces are numbered 1 .. 6 (i-lower, i-upper, j-lower,
\* j-upper, k-lower, k-upper); directions 1 and 2 of a patch follow its
\* direction 3 cyclically
Direction3(boundary) == Axes[(boundary + 1) \div 2]
Direction1(boundary) == Axes[(((boundary + 1) \div 2) % 3) + 1]
Direction2(boundary) == Axes[((((boundary + 1) \div 2) + 1) % 3) + 1]
IsLower(boundary) == boundary % 2 = 1

Direction1First == Direction1(inter.boundaryFirst)
Direction2First == Direction2(inter.boundaryFirst)
Direction3First == Direction3(inter.boundaryFirst)
Direction1Second == Direction1(inter.boundarySecond)
Direction2Second == Direction2(inter.boundarySecond)
Direction3Second == Direction3(inter.boundarySecond)
IsLowerLowerOrUpperUpper == IsLower(inter.boundaryFirst) = IsLower(inter.boundarySecond)

\* the patch of the first side, widened by the ghost layers (AdjustForSlice)
Dir1StartFirst == inter.patch1[1] - numGhosts
Dir1EndFirst == inter.patch1[2] + numGhosts
Dir2StartFirst == inter.patch2[1] - numGhosts
Dir2EndFirst == inter.patch2[2] + numGhosts
Dir1LenFirst == Dir1EndFirst - Dir1StartFirst
Dir2LenFirst == Dir2EndFirst - Dir2StartFirst
ConstSurfaceFirst == IF IsLower(inter.boundaryFirst) THEN 0 ELSE NumCells

\* the depth of the insertion: the ghost layers of the partner block
d3 == numGhosts

\* orientation of the second patch relative to the first
DirsSwapped == inter.orientation \in {2, 4, 6, 8}
Dir1Reversed == inter.orientation \in {3, 4, 7, 8}
Dir2Reversed == inter.orientation \in {5, 6, 7, 8}

\* a 3-d index <<i, j, k>> from its components along directions 1, 2, 3
ToIndex(dir1, dir2, c1, c2, c3) ==
  [x \in 1 .. 3 |-> IF x = AxisIndex(dir1) THEN c1
                    ELSE IF x = AxisIndex(dir2) THEN c2 ELSE c3]

Plus(index, axis, n) == [index EXCEPT ![AxisIndex(axis)] = @ + n]

\* GetSwapLoc(l1, l2, l3, numGhosts_, inter, d3, true): the block cell
GetSwapLocFirst(a) ==
  ToIndex(Direction1First, Direction2First,
          Dir1StartFirst + a[1], Dir2StartFirst + a[2],
          IF IsLower(inter.boundaryFirst)
          THEN ConstSurfaceFirst - d3 + a[3]
          ELSE ConstSurfaceFirst + a[3])

\* the extents of the slice along directions 1 and 2 of the second patch
SliceLen1 == IF DirsSwapped THEN Dir2LenFirst ELSE Dir1LenFirst
SliceLen2 == IF DirsSwapped THEN Dir1LenFirst ELSE Dir2LenFirst
SliceNumCells == SliceLen1 * SliceLen2 * d3

\* components of the slice cell along directions 1, 2, 3 of the second patch
SliceCoords(a) ==
  LET r1 == IF Dir1Reversed THEN Dir1LenFirst - 1 - a[1] ELSE a[1]
      r2 == IF Dir2Reversed THEN Dir2LenFirst - 1 - a[2] ELSE a[2]
  IN <<IF DirsSwapped THEN r2 ELSE r1,
       IF DirsSwapped THEN r1 ELSE r2,
       IF IsLowerLowerOrUpperUpper THEN d3 - 1 - a[3] ELSE a[3]>>

\* GetSwapLoc(l1, l2, l3, slice.GhostLayers(), inter, d3, false): the slice cell
GetSwapLocSecond(a) ==
  LET t == SliceCoords(a)
  IN ToIndex(Direction1Second, Direction2Second, t[1], t[2], t[3])

\* the strips of ghost cells around the patch, in the slice
Strips == {"d1Low", "d1High", "d2Low", "d2High"}

\* slice.Vol(indS): 0 in the strips the partner has not filled yet
SliceVol(indS) ==
  LET t1 == indS[AxisIndex(Direction1Second)]
      t2 == indS[AxisIndex(Direction2Second)]
  IN IF \/ "d1Low" \in sliceZero /\ t1 < numGhosts
        \/ "d1High" \in sliceZero /\ t1 >= SliceLen1 - numGhosts
        \/ "d2Low" \in sliceZero /\ t2 < numGhosts
        \/ "d2High" \in sliceZero /\ t2 >= SliceLen2 - numGhosts
     THEN 0 ELSE 1

IsPhysical(c) == 0 <= c /\ c < NumCells

\* procBlock::AtEdgeInclusive: the direction of the edge the cell lies on, a
\* cell being on an edge when it is physical along that direction alone
AtEdgeInclusive(indB) ==
  IF IsPhysical(indB[1]) /\ ~IsPhysical(indB[2]) /\ ~IsPhysical(indB[3]) THEN "i"
  ELSE IF ~IsPhysical(indB[1]) /\ IsPhysical(indB[2]) /\ ~IsPhysical(indB[3]) THEN "j"
  ELSE IF ~IsPhysical(indB[1]) /\ ~IsPhysical(indB[2]) /\ IsPhysical(indB[3]) THEN "k"
  ELSE "undefined"

\* insertion indices are pulled in where the patch borders another connection
adjS1 == IF inter.border[1] THEN numGhosts ELSE 0
adjE1 == IF inter.border[2] THEN numGhosts ELSE 0
adjS2 == IF inter.border[3] THEN numGhosts ELSE 0
adjE2 == IF inter.border[4] THEN numGhosts ELSE 0

\* mutant: direction 3 is reversed for an odd sum of the boundary numbers
aFac3OddSum ==
  IF ((inter.boundaryFirst + inter.boundarySecond) % 2 = 1) THEN -1 ELSE 1

\* whether area vectors are reversed
aFac3 == IF ((inter.boundaryFirst + inter.boundarySecond) % 2 = 0) THEN -1 ELSE 1
aFac1 == IF inter.orientation \in {3, 4, 7, 8} THEN -1 ELSE 1
aFac2 == IF inter.orientation \in {5, 6, 7, 8} THEN -1 ELSE 1

\* the cells the loops of PutGeomSlice go over, as <<l1, l2, l3>>
LoopCells ==
  {a \in (adjS1 .. (Dir1LenFirst - adjE1 - 1)) \X
         (adjS2 .. (Dir2LenFirst - adjE2 - 1)) \X (0 .. (d3 - 1)) : TRUE}

\* the counters after one more iteration, <<>> when the loops are over
NextCell(a) ==
  IF a[1] + 1 < Dir1LenFirst - adjE1 THEN <<a[1] + 1, a[2], a[3]>>
  ELSE IF a[2] + 1 < Dir2LenFirst - adjE2 THEN <<adjS1, a[2] + 1, a[3]>>
  ELSE IF a[3] + 1 < d3 THEN <<adjS1, adjS2, a[3] + 1>>
  ELSE <<>>

FaceName(axis) == IF axis = "i" THEN "faceI" ELSE IF axis = "j" THEN "faceJ" ELSE "faceK"

\* mutant: the volume of the slice cell is not looked at
SkipCellNever(indS) == FALSE

\* the test that keeps a slice cell out of the block
SkipCell(indS) == SliceVol(indS) = 0

\* mutant: the ghost layers are left out of the comparison
LowSideNoGhosts(coord, start) == coord < start

\* whether a block cell lies below the patch along one direction
LowSide(coord, start) == coord < start + numGhosts

\* mutant: only edges along direction 1 are recognised
AdjEdgeIndexDir1Only(indB, edgeDir) ==
  LET dir2 == IF Direction1First = "i" THEN 2
              ELSE IF Direction1First = "j" THEN 3 ELSE 1
  IN IF edgeDir = Direction1First
     THEN (IF LowSide(indB[dir2], Dir2StartFirst) THEN 3 ELSE 4)
     ELSE 0

\* the flag a skipped cell on an edge of direction edgeDir sets: 1 .. 4 for
\* adjEdge[0] .. adjEdge[3], 0 for the error exit
AdjEdgeIndex(indB, edgeDir) ==
  LET dir1 == IF Direction1First = "i" THEN 1
              ELSE IF Direction1First = "j" THEN 2 ELSE 3
      dir2 == IF Direction1First = "i" THEN 2
              ELSE IF Direction1First = "j" THEN 3 ELSE 1
  IN IF edgeDir = Direction1First
     THEN (IF LowSide(indB[dir2], Dir2StartFirst) THEN 3 ELSE 4)
     ELSE IF edgeDir = Direction2First
     THEN (IF LowSide(indB[dir1], Dir1StartFirst) THEN 1 ELSE 2)
     ELSE 0

\* an entry of the block geometry, and what an assignment leaves in it: the
\* slice entry it was read from and the factor on the area vector
Entry(array, index) == <<array, index[1], index[2], index[3]>>
Value(array, index, fac) == <<array, index[1], index[2], index[3], fac>>

\* the face entries written for one direction: the lower face of the cell
\* and, at the end of the line, its upper face
FaceWrites(dirB, dirS, indB, low, high, atEnd, fac) ==
  LET lower == Entry(FaceName(dirB), indB) :> Value(FaceName(dirS), low, fac)
      upper == Entry(FaceName(dirB), Plus(indB, dirB, 1)) :>
                 Value(FaceName(dirS), high, fac)
  IN IF atEnd THEN lower @@ upper ELSE lower

\* all the entries one iteration writes, as a function of <<array, index>>.
\* vol_ and center_ are written to the same index and are one entry here, and
\* so are the centre and the area of a face; the nine branches on the
\* directions 3 of the two sides make these assignments with the axes renamed.
CellWrites(a) ==
  LET indB == GetSwapLocFirst(a)
      indS == GetSwapLocSecond(a)
      fac3 == IF IsLowerLowerOrUpperUpper THEN -1 ELSE 1
      indS3 == IF IsLowerLowerOrUpperUpper THEN Plus(indS, Direction3Second, 1)
               ELSE indS
      up1 == Plus(indS, Direction1Second, 1)
      up2 == Plus(indS, Direction2Second, 1)
  IN (Entry("vol", indB) :> Value("vol", indS, 1))
     @@ FaceWrites(Direction3First, Direction3Second, indB, indS3,
                   Plus(indS3, Direction3Second, fac3), a[3] = d3 - 1, aFac3)
     @@ FaceWrites(Direction1First, Direction1Second, indB,
                   IF aFac1 = 1 THEN indS ELSE up1,
                   IF aFac1 = 1 THEN up1 ELSE indS,
                   a[1] = Dir1EndFirst - Dir1StartFirst - 1, aFac1)
     @@ FaceWrites(Direction2First, Direction2Second, indB,
                   IF aFac2 = 1 THEN indS ELSE up2,
                   IF aFac2 = 1 THEN up2 ELSE indS,
                   a[2] = Dir2EndFirst - Dir2StartFirst - 1, aFac2)

\* the arrays of a block that hold geometry, as they are kept here
GeomArrays == {"vol", "faceI", "faceJ", "faceK"}

\* the strips and the border flags drawn: none, one, or all of them
FewOf(S) == {{}} \cup {{x} : x \in S} \cup {S}

Patches == {p \in (0 .. (NumCells - 1)) \X (1 .. NumCells) : p[1] < p[2]}

GeomInit ==
  /\ NotGeomIdle
  /\ numGhosts \in 1 .. MaxGhosts
  /\ inter \in [boundaryFirst : 1 .. 6, boundarySecond : {1, 2},
                orientation : 1 .. 8, patch1 : Patches, patch2 : Patches,
                border : {[n \in 1 .. 4 |-> n \in B] : B \in FewOf(1 .. 4)}]
  /\ sliceZero \in FewOf(Strips)
  /\ geomPc = "call"
  /\ geomL = <<0, 0, 0>>
  /\ adjEdge = <<FALSE, FALSE, FALSE, FALSE>>
  /\ blkGeom = <<>>

\* entry of PutGeomSlice: the number of cells must match, then the loops start
PutGeomSliceEnter ==
  /\ geomPc = "call"
  /\ IF Dir1LenFirst * Dir2LenFirst * d3 # SliceNumCells
     THEN /\ geomPc' = "exited"
          /\ UNCHANGED geomL
     ELSE /\ geomPc' = "loop"
          /\ geomL' = <<adjS1, adjS2, 0>>
  /\ UNCHANGED <<numGhosts, inter, sliceZero, adjEdge, blkGeom>>
  /\ UNCHANGED notGeomVars

\* the loops go on, or PutGeomSlice returns adjEdge
GeomAdvance ==
  IF NextCell(geomL) = <<>>
  THEN /\ geomPc' = "returned"
       /\ UNCHANGED geomL
  ELSE /\ geomL' = NextCell(geomL)
       /\ UNCHANGED geomPc

\* one iteration on a slice cell of volume 0: nothing is inserted, and a cell
\* on an edge of the block sets a flag
PutGeomSliceSkip ==
  /\ geomPc = "loop"
  /\ SkipCell(GetSwapLocSecond(geomL))
  /\ LET indB == GetSwapLocFirst(geomL)
         edgeDir == AtEdgeInclusive(indB)
         flag == AdjEdgeIndex(indB, edgeDir)
     IN IF edgeDir = "undefined"
        THEN /\ UNCHANGED adjEdge
             /\ GeomAdvance
        ELSE IF flag = 0
        THEN /\ geomPc' = "exited"
             /\ UNCHANGED <<geomL, adjEdge>>
        ELSE /\ adjEdge' = [adjEdge EXCEPT ![flag] = TRUE]
             /\ GeomAdvance
  /\ UNCHANGED <<numGhosts, inter, sliceZero, blkGeom>>
  /\ UNCHANGED notGeomVars

\* one iteration on a slice cell of nonzero volume: volume, centre and face
\* data are inserted
PutGeomSliceInsert ==
  /\ geomPc = "loop"
  /\ ~SkipCell(GetSwapLocSecond(geomL))
  /\ blkGeom' = CellWrites(geomL) @@ blkGeom
  /\ GeomAdvance
  /\ UNCHANGED <<numGhosts, inter, sliceZero, adjEdge>>
  /\ UNCHANGED notGeomVars

GeomNext ==
  \/ PutGeomSliceEnter
  \/ PutGeomSliceSkip
  \/ PutGeomSliceInsert

SpecGeom == GeomInit /\ [][GeomNext]_vars

\* the loop cells whose slice cell has volume 0
ZeroCells == {a \in LoopCells : SliceVol(GetSwapLocSecond(a)) = 0}

\* C2: when PutGeomSlice has returned, no geometry entry (volume and centroid,
\* face areas and face centres) of a block cell whose slice cell has volume 0
\* has been written: the cell holds what it held before the call.
C2_ZeroVolumeNotInserted ==
  geomPc = "returned" =>
    \A a \in ZeroCells : \A array \in GeomArrays :
      Entry(array, GetSwapLocFirst(a)) \notin DOMAIN blkGeom

\* witness of C2: a call returned in which a slice cell of volume 0 was met
\* next to, along direction 1, a cell of nonzero volume that was inserted
C2_Witness ==
  /\ geomPc = "returned"
  /\ \E a \in ZeroCells :
       /\ <<a[1] + 1, a[2], a[3]>> \in LoopCells \ ZeroCells
       /\ Entry("vol", GetSwapLocFirst(<<a[1] + 1, a[2], a[3]>>)) \in DOMAIN blkGeom

\* C8: a slice cell of volume 0 never makes PutGeomSlice end the process: no
\* call reaches an error exit.
C8_ZeroVolumeRecoverable == geomPc # "exited"

\* witness of C8: a call returned after it met slice cells of volume 0 both on
\* an edge of the block and off the edges
C8_Witness ==
  /\ geomPc = "returned"
  /\ \E a \in ZeroCells : AtEdgeInclusive(GetSwapLocFirst(a)) = "undefined"
  /\ \E a \in ZeroCells : AtEdgeInclusive(GetSwapLocFirst(a)) # "undefined"

\* whether a loop cell lies on the edge of the block on side k of the patch:
\* 1, 2 below and above the block along direction 1, 3, 4 along direction 2
OnEdgeSide(a, k) ==
  LET indB == GetSwapLocFirst(a)
      c1 == indB[AxisIndex(Direction1First)]
      c2 == indB[AxisIndex(Direction2First)]
      c3 == indB[AxisIndex(Direction3First)]
  IN /\ ~IsPhysical(c3)
     /\ CASE k = 1 -> c1 < 0 /\ IsPhysical(c2)
          [] k = 2 -> c1 >= NumCells /\ IsPhysical(c2)
          [] k = 3 -> c2 < 0 /\ IsPhysical(c1)
          [] k = 4 -> c2 >= NumCells /\ IsPhysical(c1)

OnLowerSurface(boundary) == boundary \in {1, 3, 5}

\* the factors on the direction 3 face area vectors the call has written
Dir3Factors ==
  {blkGeom[e][5] : e \in {f \in DOMAIN blkGeom : f[1] = FaceName(Direction3First)}}

\* C15 as stated: the direction 3 face area vectors written into the ghost
\* cells are negated exactly when one patch is on a lower and the other on an
\* upper surface.
C15_FlippedForLowerUpper ==
  \A fac \in Dir3Factors :
    fac = -1 <=>
      (OnLowerSurface(inter.boundaryFirst) # OnLowerSurface(inter.boundarySecond))

\* C15, amended: the direction 3 face area vectors written into the ghost
\* cells are negated exactly when both patches are on lower surfaces or both
\* on upper surfaces, and are not negated for a lower and an upper surface.
C15_FlippedForLowerLower ==
  \A fac \in Dir3Factors :
    fac = -1 <=>
      (OnLowerSurface(inter.boundaryFirst) = OnLowerSurface(inter.boundarySecond))

\* witness of C15: a call between two lower surfaces has returned with
\* direction 3 face areas written
C15_Witness ==
  /\ geomPc = "returned"
  /\ OnLowerSurface(inter.boundaryFirst)
  /\ OnLowerSurface(inter.boundarySecond)
  /\ Dir3Factors = {-1}

(***************************************************************************)
(* procBlock::AssignInviscidGhostCellsEdge and                             *)
(* procBlock::AssignViscousGhostCellsEdge: the edge ghost cells of state_  *)
(***************************************************************************)
\* numGhosts_ of the blocks
EdgeGhosts == 2

\* max2 and max3, the physical cells across the edges
EdgeCells == 1

BCTypes == {"slipWall", "viscousWall", "farfield"}

\* two blocks with the same physical cells and boundary condition types
EdgeBlocks == {0, 1}

surfStart2(dd) == IF dd = 0 THEN 3 ELSE IF dd = 1 THEN 5 ELSE 1
surfStart3(dd) == IF dd = 0 THEN 5 ELSE IF dd = 1 THEN 1 ELSE 3

upper2(cc) == cc > 1
upper3(cc) == cc % 2 = 1

\* cell indices (g: ghost at the current layer, p: ghost at the previous layer)
pCell(upper, layer) == IF upper THEN EdgeCells + layer - 2 ELSE 1 - layer
gCell(upper, layer) ==
  IF upper THEN pCell(upper, layer) + 1 ELSE pCell(upper, layer) - 1
pCellD2(cc, layer2) == pCell(upper2(cc), layer2)
gCellD2(cc, layer2) == gCell(upper2(cc), layer2)
pCellD3(cc, layer3) == pCell(upper3(cc), layer3)
gCellD3(cc, layer3) == gCell(upper3(cc), layer3)

\* surface types of the surfaces forming the edge
surf2(cc) ==
  IF upper2(cc) THEN surfStart2(edgeAxis) + 1 ELSE surfStart2(edgeAxis)
surf3(cc) ==
  IF upper3(cc) THEN surfStart3(edgeAxis) + 1 ELSE surfStart3(edgeAxis)

\* the ghost state of a wall boundary condition; the state is the velocity
\* <<along direction 2, along direction 3>> and axis the direction of the
\* face normal
GetGhostState(st, bcType, axis) ==
  IF bcType = "slipWall"
  THEN IF axis = 2 THEN <<0 - st[1], st[2]>> ELSE <<st[1], 0 - st[2]>>
  ELSE IF bcType = "viscousWall" THEN <<0 - st[1], 0 - st[2]>>
  ELSE st

\* mutant: the inviscid routine keeps the type viscousWall
InviscidBCTypeRaw(bcType) == bcType

\* if (bc == "viscousWall") {bc = "slipWall";}
InviscidBCType(bcType) == IF bcType = "viscousWall" THEN "slipWall" ELSE bcType

\* 0.5 * (a + b)
Mean(a, b) == <<(a[1] + b[1]) \div 2, (a[2] + b[2]) \div 2>>

\* both surfaces or neither are walls: average, or take the value from the
\* other direction
AverageOrCopy(cells, cc, layer2, layer3) ==
  LET viaD2 == cells[<<pCellD2(cc, layer2), gCellD3(cc, layer3)>>]
      viaD3 == cells[<<gCellD2(cc, layer2), pCellD3(cc, layer3)>>]
  IN IF layer2 = layer3 THEN Mean(viaD2, viaD3)
     ELSE IF layer2 > layer3 THEN viaD3
     ELSE viaD2

\* the value AssignInviscidGhostCellsEdge inserts at (gCellD2, gCellD3)
InviscidEdgeValue(cells, cc, layer2, layer3) ==
  LET bc_2 == InviscidBCType(edgeBC[surf2(cc)])
      bc_3 == InviscidBCType(edgeBC[surf3(cc)])
  IN IF bc_2 = "slipWall" /\ bc_3 # "slipWall"
     THEN GetGhostState(cells[<<pCellD2(cc, layer2), gCellD3(cc, layer3)>>],
                        bc_2, 2)
     ELSE IF bc_2 # "slipWall" /\ bc_3 = "slipWall"
     THEN GetGhostState(cells[<<gCellD2(cc, layer2), pCellD3(cc, layer3)>>],
                        bc_3, 3)
     ELSE AverageOrCopy(cells, cc, layer2, layer3)

\* mutant: the viscous routine leaves every edge cell as it finds it
ViscousEdgeValueKept(cells, cc, layer2, layer3) ==
  cells[<<gCellD2(cc, layer2), gCellD3(cc, layer3)>>]

\* the value of (gCellD2, gCellD3) after one pass of the body of
\* AssignViscousGhostCellsEdge
ViscousEdgeValue(cells, cc, layer2, layer3) ==
  LET bc_2 == edgeBC[surf2(cc)]
      bc_3 == edgeBC[surf3(cc)]
  IN IF bc_2 = "slipWall" /\ bc_3 # "slipWall"
     THEN GetGhostState(cells[<<pCellD2(cc, layer2), gCellD3(cc, layer3)>>],
                        bc_2, 2)
     ELSE IF bc_2 # "slipWall" /\ bc_3 = "slipWall"
     THEN GetGhostState(cells[<<gCellD2(cc, layer2), pCellD3(cc, layer3)>>],
                        bc_3, 3)
     ELSE IF bc_2 = "viscousWall" /\ bc_3 = "viscousWall"
     THEN AverageOrCopy(cells, cc, layer2, layer3)
     ELSE cells[<<gCellD2(cc, layer2), gCellD3(cc, layer3)>>]

\* the indices of state_ in one direction, ghost layers included
EdgeRange == (0 - EdgeGhosts) .. (EdgeCells - 1 + EdgeGhosts)
Plane == EdgeRange \X EdgeRange
IsPhys(d) == d >= 0 /\ d < EdgeCells

\* the ghost layer an index lies in
LayerOf(d) == IF d < 0 THEN 0 - d ELSE d - EdgeCells + 1

\* iCell: the interior cell a regular ghost of a layer mirrors, kept in the
\* physical range
InteriorCell(d) ==
  IF d < 0
  THEN (IF LayerOf(d) - 1 >= EdgeCells THEN EdgeCells - 1 ELSE LayerOf(d) - 1)
  ELSE (IF EdgeCells - LayerOf(d) < 0 THEN 0 ELSE EdgeCells - LayerOf(d))

\* the surface type a regular ghost index of direction 2 or 3 lies behind
SurfOfD2(d) == IF d < 0 THEN surfStart2(edgeAxis) ELSE surfStart2(edgeAxis) + 1
SurfOfD3(d) == IF d < 0 THEN surfStart3(edgeAxis) ELSE surfStart3(edgeAxis) + 1

\* the states of the physical cells, the same in both blocks
PhysState(c2, c3) == <<2 + (4 * c2), 4 + (4 * c3)>>

\* the ghost states a boundary condition that is not a wall supplied; they
\* differ between the two blocks
NonWallGhost(blk, surf, layer, d) ==
  <<2 * ((10 * blk) + surf + layer), 2 * ((7 * blk) + (3 * surf) + layer + d)>>

\* state_ after AssignInviscidGhostCells: regular ghost cells are filled, edge
\* cells are not
AfterInviscidGhostCells(blk) ==
  [c \in Plane |->
     LET c2 == c[1]
         c3 == c[2]
     IN IF IsPhys(c2) /\ IsPhys(c3) THEN PhysState(c2, c3)
        ELSE IF IsPhys(c3)
        THEN IF InviscidBCType(edgeBC[SurfOfD2(c2)]) = "slipWall"
             THEN GetGhostState(PhysState(InteriorCell(c2), c3), "slipWall", 2)
             ELSE NonWallGhost(blk, SurfOfD2(c2), LayerOf(c2), c3)
        ELSE IF IsPhys(c2)
        THEN IF InviscidBCType(edgeBC[SurfOfD3(c3)]) = "slipWall"
             THEN GetGhostState(PhysState(c2, InteriorCell(c3)), "slipWall", 3)
             ELSE NonWallGhost(blk, SurfOfD3(c3), LayerOf(c3), c2)
        ELSE <<100, 100>>]

\* AssignViscousGhostCells before its call of the edge routine: the regular
\* ghost cells of viscous walls are overwritten
ViscousGhostValues(cells) ==
  [c \in Plane |->
     LET c2 == c[1]
         c3 == c[2]
     IN IF ~IsPhys(c2) /\ IsPhys(c3) /\ edgeBC[SurfOfD2(c2)] = "viscousWall"
        THEN GetGhostState(cells[<<InteriorCell(c2), c3>>], "viscousWall", 2)
        ELSE IF IsPhys(c2) /\ ~IsPhys(c3) /\ edgeBC[SurfOfD3(c3)] = "viscousWall"
        THEN GetGhostState(cells[<<c2, InteriorCell(c3)>>], "viscousWall", 3)
        ELSE cells[c]]

\* the loops over layer3, layer2 and cc, innermost last
EdgeLoopStart(blk) == <<blk, 1, 1, 0>>
EdgeLoopNext(l) ==
  IF l[4] < 3 THEN <<l[1], l[2], l[3], l[4] + 1>>
  ELSE IF l[3] < EdgeGhosts THEN <<l[1], l[2], l[3] + 1, 0>>
  ELSE <<l[1], l[2] + 1, 1, 0>>
EdgeLoopOver(l) == l[2] > EdgeGhosts

EdgeInit ==
  /\ NotEdgeIdle
  /\ edgeAxis \in 0 .. 2
  /\ edgeBC \in {f \in [1 .. 6 -> BCTypes] :
                   \A sf \in 1 .. 6 :
                     sf \notin {surfStart2(edgeAxis), surfStart2(edgeAxis) + 1,
                                surfStart3(edgeAxis), surfStart3(edgeAxis) + 1}
                       => f[sf] = "farfield"}
  /\ edgeCells = [blk \in EdgeBlocks |-> AfterInviscidGhostCells(blk)]
  /\ edgePc = "inviscid"
  /\ edgeLoop = EdgeLoopStart(0)

\* the cells of the current block with one edge cell assigned
EdgeInsert(value) ==
  LET blk == edgeLoop[1]
      g == <<gCellD2(edgeLoop[4], edgeLoop[3]), gCellD3(edgeLoop[4], edgeLoop[2])>>
  IN [edgeCells EXCEPT ![blk][g] = value]

\* one pass of the body of the loops of AssignInviscidGhostCellsEdge
AssignInviscidGhostCellsEdge ==
  /\ edgePc = "inviscid"
  /\ ~EdgeLoopOver(edgeLoop)
  /\ edgeCells' = EdgeInsert(InviscidEdgeValue(edgeCells[edgeLoop[1]],
                                               edgeLoop[4], edgeLoop[3], edgeLoop[2]))
  /\ edgeLoop' = EdgeLoopNext(edgeLoop)
  /\ UNCHANGED <<edgeAxis, edgeBC, edgePc>>
  /\ UNCHANGED notEdgeVars

\* the routine returns; gridLevel::GetBoundaryConditions goes to the next block
InviscidEdgeReturn ==
  /\ edgePc = "inviscid"
  /\ EdgeLoopOver(edgeLoop)
  /\ IF edgeLoop[1] + 1 \in EdgeBlocks
     THEN /\ edgeLoop' = EdgeLoopStart(edgeLoop[1] + 1)
          /\ UNCHANGED edgePc
     ELSE /\ edgeLoop' = EdgeLoopStart(0)
          /\ edgePc' = "viscousGhosts"
  /\ UNCHANGED <<edgeAxis, edgeBC, edgeCells>>
  /\ UNCHANGED notEdgeVars

\* AssignViscousGhostCells of the current block up to its call of the edge
\* routine
AssignViscousGhostCells ==
  /\ edgePc = "viscousGhosts"
  /\ edgeCells' = [edgeCells EXCEPT ![edgeLoop[1]] = ViscousGhostValues(@)]
  /\ edgePc' = "viscous"
  /\ UNCHANGED <<edgeAxis, edgeBC, edgeLoop>>
  /\ UNCHANGED notEdgeVars

\* one pass of the body of the loops of AssignViscousGhostCellsEdge
AssignViscousGhostCellsEdge ==
  /\ edgePc = "viscous"
  /\ ~EdgeLoopOver(edgeLoop)
  /\ edgeCells' = EdgeInsert(ViscousEdgeValue(edgeCells[edgeLoop[1]],
                                              edgeLoop[4], edgeLoop[3], edgeLoop[2]))
  /\ edgeLoop' = EdgeLoopNext(edgeLoop)
  /\ UNCHANGED <<edgeAxis, edgeBC, edgePc>>
  /\ UNCHANGED notEdgeVars

\* the viscous routine returns; the next block follows
ViscousEdgeReturn ==
  /\ edgePc = "viscous"
  /\ EdgeLoopOver(edgeLoop)
  /\ IF edgeLoop[1] + 1 \in EdgeBlocks
     THEN /\ edgeLoop' = EdgeLoopStart(edgeLoop[1] + 1)
          /\ edgePc' = "viscousGhosts"
     ELSE /\ edgePc' = "done"
          /\ UNCHANGED edgeLoop
  /\ UNCHANGED <<edgeAxis, edgeBC, edgeCells>>
  /\ UNCHANGED notEdgeVars

EdgeNext ==
  \/ AssignInviscidGhostCellsEdge
  \/ InviscidEdgeReturn
  \/ AssignViscousGhostCells
  \/ AssignViscousGhostCellsEdge
  \/ ViscousEdgeReturn

SpecEdge == EdgeInit /\ [][EdgeNext]_vars

IsWall(bcType) == bcType \in {"slipWall", "viscousWall"}
EdgeLayers == 1 .. EdgeGhosts

\* AssignInviscidGhostCellsEdge has returned for every block and nothing has
\* run after it
InviscidEdgeDone == edgePc = "viscousGhosts" /\ edgeLoop[1] = 0

\* the edge cell of an edge and a pair of layers, in a block
EdgeCell(blk, cc, layer2, layer3) ==
  edgeCells[blk][<<gCellD2(cc, layer2), gCellD3(cc, layer3)>>]

\* C12 as stated: with exactly one wall among the two surfaces of an edge, the
\* edge ghost does not depend on the ghost values of the side that is not a
\* wall: two blocks that differ only in those values have equal edge ghosts.
C12_EdgeIndependentOfNonWallSide ==
  InviscidEdgeDone =>
    \A cc \in 0 .. 3 : \A layer2, layer3 \in EdgeLayers :
      (IsWall(edgeBC[surf2(cc)]) # IsWall(edgeBC[surf3(cc)])) =>
        EdgeCell(0, cc, layer2, layer3) = EdgeCell(1, cc, layer2, layer3)

\* C12, amended: with exactly one wall among the two surfaces of an edge, the
\* edge ghost is the slip wall ghost state, with the normal of the wall side,
\* of the cell one layer nearer to the wall surface at the same position
\* along the other direction, a cell in the ghost layers of the side that is
\* not a wall.
C12_WallExtendedFromNeighbour ==
  InviscidEdgeDone =>
    \A blk \in EdgeBlocks : \A cc \in 0 .. 3 : \A layer2, layer3 \in EdgeLayers :
      LET cells == edgeCells[blk]
          wall2 == IsWall(edgeBC[surf2(cc)])
          wall3 == IsWall(edgeBC[surf3(cc)])
      IN /\ (wall2 /\ ~wall3) =>
              EdgeCell(blk, cc, layer2, layer3) =
                GetGhostState(cells[<<pCellD2(cc, layer2), gCellD3(cc, layer3)>>],
                              "slipWall", 2)
         /\ (~wall2 /\ wall3) =>
              EdgeCell(blk, cc, layer2, layer3) =
                GetGhostState(cells[<<gCellD2(cc, layer2), pCellD3(cc, layer3)>>],
                              "slipWall", 3)

\* witness of C12: the inviscid routine is over, an edge has a viscous wall on
\* one side only, and its edge ghosts differ between the two blocks
C12_Witness ==
  /\ InviscidEdgeDone
  /\ \E cc \in 0 .. 3 :
       /\ edgeBC[surf2(cc)] = "viscousWall"
       /\ edgeBC[surf3(cc)] = "farfield"
       /\ \A layer2, layer3 \in EdgeLayers :
            /\ EdgeCell(0, cc, layer2, layer3) # EdgeCell(1, cc, layer2, layer3)
            /\ EdgeCell(0, cc, layer2, layer3) # <<100, 100>>

C27_ViscousWallExtended ==
  edgePc = "done" =>
    \A blk \in EdgeBlocks : \A cc \in 0 .. 3 : \A layer2, layer3 \in EdgeLayers :
      LET cells == edgeCells[blk]
          bc_2 == edgeBC[surf2(cc)]
          bc_3 == edgeBC[surf3(cc)]
      IN /\ (bc_2 = "viscousWall" /\ bc_3 # "viscousWall") =>
              EdgeCell(blk, cc, layer2, layer3) =
                GetGhostState(cells[<<pCellD2(cc, layer2), gCellD3(cc, layer3)>>],
                              "viscousWall", 2)
         /\ (bc_2 # "viscousWall" /\ bc_3 = "viscousWall") =>
              EdgeCell(blk, cc, layer2, layer3) =
                GetGhostState(cells[<<gCellD2(cc, layer2), pCellD3(cc, layer3)>>],
                              "viscousWall", 3)

(***************************************************************************)
(* procBlock::AssignGhostCellsGeomEdge: the edge ghost cells of the        *)
(* geometry; edgeCells holds <<volume, face area>> of the cells            *)
(***************************************************************************)
\* i: the interior cell of direction 2
iCellD2(cc, layer2) == IF upper2(cc) THEN EdgeCells - layer2 ELSE layer2 - 1

\* mutant: the geometry comes from the side with the larger layer
GeomEdgeSourceDeeper(cc, layer2, layer3) ==
  IF layer2 > layer3
  THEN <<gCellD2(cc, layer2), InteriorCell(gCellD3(cc, layer3))>>
  ELSE <<iCellD2(cc, layer2), gCellD3(cc, layer3)>>

\* the cell whose volume and face areas are inserted at (gCellD2, gCellD3):
\* values come from direction 2
GeomEdgeSource(cc, layer2, layer3) ==
  <<iCellD2(cc, layer2), gCellD3(cc, layer3)>>

\* volume and face area of the physical cells
GeomPhys(c2, c3) == <<10 + c2 + (3 * c3), 20 + (5 * c2) + c3>>

\* the geometry the swap put into the ghost cells of an interblock surface
NeighbourGeom(blk, surf, layer, c) ==
  <<50 + (10 * blk) + surf + layer, 70 + (3 * surf) + layer + c>>

\* the geometry after AssignGhostCellsGeom and the swap of the interblock
\* geometry: regular ghost cells are filled, edge cells are not
AfterGhostCellsGeom(blk) ==
  [c \in Plane |->
     LET c2 == c[1]
         c3 == c[2]
     IN IF IsPhys(c2) /\ IsPhys(c3) THEN GeomPhys(c2, c3)
        ELSE IF IsPhys(c3)
        THEN IF edgeBC[SurfOfD2(c2)] = "interblock"
             THEN NeighbourGeom(blk, SurfOfD2(c2), LayerOf(c2), c3)
             ELSE GeomPhys(InteriorCell(c2), c3)
        ELSE IF IsPhys(c2)
        THEN IF edgeBC[SurfOfD3(c3)] = "interblock"
             THEN NeighbourGeom(blk, SurfOfD3(c3), LayerOf(c3), c2)
             ELSE GeomPhys(c2, InteriorCell(c3))
        ELSE <<0, 0>>]

GeomEdgeInit ==
  /\ NotEdgeIdle
  /\ edgeAxis \in 0 .. 2
  /\ edgeBC \in {f \in [1 .. 6 -> {"slipWall", "interblock"}] :
                   \A sf \in 1 .. 6 :
                     sf \notin {surfStart2(edgeAxis), surfStart2(edgeAxis) + 1,
                                surfStart3(edgeAxis), surfStart3(edgeAxis) + 1}
                       => f[sf] = "slipWall"}
  /\ edgeCells = [blk \in EdgeBlocks |-> AfterGhostCellsGeom(blk)]
  /\ edgePc = "geom"
  /\ edgeLoop = EdgeLoopStart(0)

\* one pass of the body of the loops of AssignGhostCellsGeomEdge
AssignGhostCellsGeomEdge ==
  /\ edgePc = "geom"
  /\ ~EdgeLoopOver(edgeLoop)
  /\ edgeCells' = EdgeInsert(edgeCells[edgeLoop[1]][
                     GeomEdgeSource(edgeLoop[4], edgeLoop[3], edgeLoop[2])])
  /\ edgeLoop' = EdgeLoopNext(edgeLoop)
  /\ UNCHANGED <<edgeAxis, edgeBC, edgePc>>
  /\ UNCHANGED notEdgeVars

\* the routine returns; the loop over the blocks goes on
GeomEdgeReturn ==
  /\ edgePc = "geom"
  /\ EdgeLoopOver(edgeLoop)
  /\ IF edgeLoop[1] + 1 \in EdgeBlocks
     THEN /\ edgeLoop' = EdgeLoopStart(edgeLoop[1] + 1)
          /\ UNCHANGED edgePc
     ELSE /\ edgePc' = "geomDone"
          /\ UNCHANGED edgeLoop
  /\ UNCHANGED <<edgeAxis, edgeBC, edgeCells>>
  /\ UNCHANGED notEdgeVars

GeomEdgeNext ==
  \/ AssignGhostCellsGeomEdge
  \/ GeomEdgeReturn

SpecGeomEdge == GeomEdgeInit /\ [][GeomEdgeNext]_vars

\* the regular ghost cells of the two sides an edge ghost can be mirrored from
FromSide2(blk, cc, layer2, layer3) ==
  edgeCells[blk][<<gCellD2(cc, layer2), InteriorCell(gCellD3(cc, layer3))>>]
FromSide3(blk, cc, layer2, layer3) ==
  edgeCells[blk][<<InteriorCell(gCellD2(cc, layer2)), gCellD3(cc, layer3)>>]

NumI == 3

\* fAreaI_.PhysStartI() and fAreaI_.PhysEndI(): the physical faces
PhysStartI == 0
PhysEndI == NumI + 1

FluxFaces == PhysStartI .. (PhysEndI - 1)
FluxCells == 0 .. (NumI - 1)
ResidualCells == (0 - 1) .. NumI

\* the values of a face flux and of a face area magnitude
FluxValues == {0 - 1, 2}
AreaValues == {1, 2}

\* mutant: every face has a lower cell to add to
HasLowerCellAlways(ii) == TRUE

\* "at left boundary there is no left cell to add to"
HasLowerCell(ii) == ii > PhysStartI

\* "at right boundary there is no right cell to add to"
HasUpperCell(ii) == ii < PhysEndI - 1

\* procBlock::AddToResidual, SubtractFromResidual
AddToResidual(res, ii, arr) == [res EXCEPT ![ii] = @ + arr]
SubtractFromResidual(res, ii, arr) == [res EXCEPT ![ii] = @ - arr]

\* tempFlux * FAreaMagI(ii, jj, kk)
FluxTimesArea(ii) == faceFlux[ii] * faceAreaMag[ii]

FluxInit ==
  /\ NotFluxIdle
  /\ faceFlux \in [FluxFaces -> FluxValues]
  /\ faceAreaMag \in [FluxFaces -> AreaValues]
  /\ residual = [c \in ResidualCells |-> 0]
  /\ fluxIi = PhysStartI
  /\ fluxPc = "loop"

\* one pass of the loop over the i-faces
CalcInvFluxIFace ==
  /\ fluxPc = "loop"
  /\ fluxIi < PhysEndI
  /\ LET added == IF HasLowerCell(fluxIi)
                  THEN AddToResidual(residual, fluxIi - 1, FluxTimesArea(fluxIi))
                  ELSE residual
     IN  residual' = IF HasUpperCell(fluxIi)
                     THEN SubtractFromResidual(added, fluxIi, FluxTimesArea(fluxIi))
                     ELSE added
  /\ fluxIi' = fluxIi + 1
  /\ UNCHANGED <<faceFlux, faceAreaMag, fluxPc>>
  /\ UNCHANGED notFluxVars

CalcInvFluxIReturn ==
  /\ fluxPc = "loop"
  /\ fluxIi = PhysEndI
  /\ fluxPc' = "done"
  /\ UNCHANGED <<faceFlux, faceAreaMag, residual, fluxIi>>
  /\ UNCHANGED notFluxVars

FluxNext ==
  \/ CalcInvFluxIFace
  \/ CalcInvFluxIReturn

SpecFlux == FluxInit /\ [][FluxNext]_vars

RECURSIVE SumResidual(_, _)
\* the sum of the residuals of the cells 0 .. n - 1
SumResidual(res, n) == IF n = 0 THEN 0 ELSE res[n - 1] + SumResidual(res, n - 1)

\* what the faces handled so far contribute to cell c: its upper face ii = c + 1
\* adds, its lower face ii = c subtracts
FacesHandled(ii) == ii < fluxIi
ExpectedResidual(c) ==
  (IF FacesHandled(c + 1) THEN FluxTimesArea(c + 1) ELSE 0)
    - (IF FacesHandled(c) THEN FluxTimesArea(c) ELSE 0)

\* C16: flux times area of a face is added to the cell below the face and the
\* same quantity subtracted from the cell above it, a boundary face updates
\* only its one physical cell, no ghost residual is written, and after the
\* call the residuals of the block sum to what the two boundary faces gave.
C16_FluxConservation ==
  /\ fluxPc # "idle" =>
       /\ \A c \in FluxCells : residual[c] = ExpectedResidual(c)
       /\ residual[0 - 1] = 0
       /\ residual[NumI] = 0
  /\ fluxPc = "done" =>
       SumResidual(residual, NumI) =
         FluxTimesArea(PhysEndI - 1) - FluxTimesArea(PhysStartI)

\* witness of C16: the call has returned, an interior face carried a nonzero
\* flux, and both boundary faces did
C16_Witness ==
  /\ fluxPc = "done"
  /\ residual[0] # 0
  /\ residual[NumI - 1] # 0
  /\ \E c \in FluxCells : c > 0 /\ FluxTimesArea(c) # 0
  /\ SumResidual(residual, NumI) # 0

(***************************************************************************)
(* Arithmetic of doubles without rounding: a value <<n, d>> is n / d for   *)
(* d > 0, <<1, 0>> is +inf, <<-1, 0>> is -inf and <<0, 0>> is NaN.          *)
(***************************************************************************)
RECURSIVE GCD(_, _)
GCD(a, b) == IF b = 0 THEN a ELSE GCD(b, a % b)

AbsVal(a) == IF a < 0 THEN 0 - a ELSE a
Sign(a) == IF a < 0 THEN 0 - 1 ELSE IF a > 0 THEN 1 ELSE 0

\* the value n / d in lowest terms with d >= 0
Canon(n, d) ==
  IF d = 0 THEN <<Sign(n), 0>>
  ELSE LET g == GCD(AbsVal(n), AbsVal(d))
       IN  <<Sign(d) * (n \div g), AbsVal(d) \div g>>

FromInt(a) == <<a, 1>>
IsNaN(x) == x = <<0, 0>>

\* x + y: inf + inf = inf, inf - inf = NaN
RAdd(x, y) ==
  IF x[2] = 0 /\ y[2] = 0
  THEN (IF x = y THEN x ELSE <<0, 0>>)
  ELSE Canon((x[1] * y[2]) + (y[1] * x[2]), x[2] * y[2])

\* x * y: 0 * inf = NaN
RMul(x, y) == Canon(x[1] * y[1], x[2] * y[2])

\* 1 / y: 1 / 0 = inf, 1 / inf = 0
RRecip(y) == IF y[1] < 0 THEN <<0 - y[2], 0 - y[1]>> ELSE <<y[2], y[1]>>

\* x / y: 0 / 0 = NaN, inf / inf = NaN
RDiv(x, y) == LET r == RRecip(y) IN Canon(x[1] * r[1], x[2] * r[2])

\* std::max(x, 0.0), which is (x < 0.0) ? 0.0 : x and so keeps a NaN
RMax0(x) == IF x[1] < 0 THEN <<0, 1>> ELSE x

RGeq0(x) == (~IsNaN(x)) /\ x[1] >= 0
RIsOne(x) == x = <<1, 1>>

(***************************************************************************)
(* procBlock::UpdateBlock over one line of cells of a flow of two species. *)
(* A state holds the species densities; the equations are the two species  *)
(* equations.                                                              *)
(***************************************************************************)
NumUpdCells == 2

UpdCells == 0 .. (NumUpdCells - 1)
NumEquations == 2

\* the block being updated: parBlock_
UpdParBlock == 1

\* species densities at entry, solver updates and residuals of a cell
UpdStates == {<<FromInt(2), FromInt(1)>>, <<FromInt(1), FromInt(1)>>}
UpdDus == {<<0, 0>>, <<1, 0 - 1>>, <<0 - 1, 0 - 2>>, <<0 - 2, 0 - 1>>, <<0 - 3, 1>>}
UpdResiduals == {<<0, 0>>, <<1, 2>>, <<0 - 3, 1>>, <<2, 0 - 3>>}

\* primitive::Rho, conserved::Rho: the sum of the species densities
Rho(st) == RAdd(st[1], st[2])

\* primitive::MassFractionN
MassFractionN(st, n) == RDiv(st[n], Rho(st))

\* mutant: the mass fractions are renormalised without being clamped
ClampFractionNone(frac) == frac

\* "keep mass fractions positive": frac = std::max(frac, 0.0)
ClampFraction(frac) == RMax0(frac)

\* UpdatePrimWithCons for the species densities: add du, clamp the mass
\* fractions, renormalise, and rebuild the species densities from rho
UpdatePrimWithConsSpecies(st, du) ==
  LET consUpdate == <<RAdd(st[1], FromInt(du[1])), RAdd(st[2], FromInt(du[2]))>>
      rho == Rho(consUpdate)
      mf == <<ClampFraction(MassFractionN(consUpdate, 1)),
              ClampFraction(MassFractionN(consUpdate, 2))>>
      total == RAdd(RAdd(FromInt(0), mf[1]), mf[2])
  IN  <<RMul(rho, RDiv(mf[1], total)), RMul(rho, RDiv(mf[2], total))>>

\* procBlock::ImplicitTimeAdvance
ImplicitTimeAdvance(st, du) == UpdatePrimWithConsSpecies(st, du)

\* procBlock::ExplicitEulerTimeAdvance with dt / vol = 1
ExplicitEulerTimeAdvance(st, res) ==
  <<RAdd(st[1], FromInt(0 - res[1])), RAdd(st[2], FromInt(0 - res[2]))>>

\* the comparison that finds a new linf residual
ExceedsLinf(res, cur) == res > cur

RECURSIVE LinfAfter(_, _, _, _)
\* the loop over the equations ll = 0 .. NumEquations - 1 of cell ii
LinfAfter(cur, ii, res, ll) ==
  IF ll = NumEquations THEN cur
  ELSE LinfAfter(IF ExceedsLinf(res[ll + 1], cur[1])
                 THEN <<res[ll + 1], UpdParBlock, ii, ll + 1>>
                 ELSE cur,
                 ii, res, ll + 1)

UbInit ==
  /\ NotUbIdle
  /\ timeIntegration \in {"explicitEuler", "implicit"}
  /\ cellStateN \in {[c \in UpdCells |-> st] : st \in UpdStates}
  /\ cellState = cellStateN
  /\ cellDu \in [UpdCells -> UpdDus]
  /\ cellResid \in [UpdCells -> UpdResiduals]
  /\ linf \in {<<0, 0, 0, 0>>, <<1, 0, 0, 1>>}
  /\ l2 = <<0, 0>>
  /\ ubIi = 0
  /\ ubPc = "loop"

\* one pass of the loop over the cells
UpdateBlockCell ==
  /\ ubPc = "loop"
  /\ ubIi < NumUpdCells
  /\ cellState' =
       [cellState EXCEPT ![ubIi] =
          IF timeIntegration = "explicitEuler"
          THEN ExplicitEulerTimeAdvance(@, cellResid[ubIi])
          ELSE ImplicitTimeAdvance(@, cellDu[ubIi])]
  /\ l2' = <<l2[1] + (cellResid[ubIi][1] * cellResid[ubIi][1]),
             l2[2] + (cellResid[ubIi][2] * cellResid[ubIi][2])>>
  /\ linf' = LinfAfter(linf, ubIi, cellResid[ubIi], 0)
  /\ ubIi' = ubIi + 1
  /\ UNCHANGED <<timeIntegration, cellStateN, cellDu, cellResid, ubPc>>
  /\ UNCHANGED notUbVars

UpdateBlockReturn ==
  /\ ubPc = "loop"
  /\ ubIi = NumUpdCells
  /\ ubPc' = "done"
  /\ UNCHANGED <<timeIntegration, cellStateN, cellState, cellDu, cellResid, linf,
                 l2, ubIi>>
  /\ UNCHANGED notUbVars

UbNext ==
  \/ UpdateBlockCell
  \/ UpdateBlockReturn

SpecUpdateBlock == UbInit /\ [][UbNext]_vars

\* C17: after the call Linf is at least the absolute value of the residual of
\* every equation of every cell of the block, negative residuals included.
C17_LinfBoundsAbsResidual ==
  ubPc = "done" =>
    \A c \in UpdCells : \A k \in 1 .. NumEquations :
      linf[1] >= AbsVal(cellResid[c][k])

\* the cells the implicit update has acted on
ImplicitlyUpdated(c) == timeIntegration = "implicit" /\ c < ubIi

\* the total density the update asks for: the density at entry plus du
UpdatedRho(c) ==
  RAdd(Rho(cellStateN[c]), FromInt(cellDu[c][1] + cellDu[c][2]))

\* the mass fractions of a state are >= 0 and sum to 1
FractionsNormalised(st) ==
  /\ RGeq0(MassFractionN(st, 1))
  /\ RGeq0(MassFractionN(st, 2))
  /\ RIsOne(RAdd(MassFractionN(st, 1), MassFractionN(st, 2)))

FineCellsI == 4
FineCellsJ == 2

CoarsenDirs == {1, 2}

\* NumI(), NumJ(): the cells of the block in a direction
NumFine(dir) == IF dir = 1 THEN FineCellsI ELSE FineCellsJ

\* nodes_.NumI(), nodes_.NumJ(): one node more than cells
NumNodes(dir) == NumFine(dir) + 1

FineCellSet == (0 .. (FineCellsI - 1)) \X (0 .. (FineCellsJ - 1))

\* bc_.IsSurfaceBoundary(dir, ind): the index lies on a boundary surface.
\* The lower and the upper surface of the block are always among them; an
\* interior index is one where a surface patch of another direction ends.
SurfaceBoundarySets(dir) ==
  {bnd \cup {0, NumNodes(dir) - 1} : bnd \in SUBSET (1 .. (NumNodes(dir) - 2))}

IsSurfaceBoundary(dir, ind) == ind \in surfBoundary[dir]

\* the cell volumes of the fine block
VolumeFields ==
  {[f \in FineCellSet |-> 1],
   [f \in FineCellSet |-> 1 + f[1]],
   [f \in FineCellSet |-> 1 + ((f[1] + (2 * f[2])) % 3)]}

\* mutant: an index is kept only after two indices were dropped
KeepEveryThird(since) == since > 1

\* "keep every other index": else if (sinceLastKept > 0)
KeepEveryOther(since) == since > 0

\* the element at a position counted from zero, as in the code
At(index, pos) == index[pos + 1]

\* std::distance(begin, std::find_if(begin, end, ind > f)): the position of the
\* first kept index above f, the length when there is none
FirstAbove(index, f) ==
  IF \E pos \in 0 .. (Len(index) - 1) : At(index, pos) > f
  THEN CHOOSE pos \in 0 .. (Len(index) - 1) :
         /\ At(index, pos) > f
         /\ \A q \in 0 .. (pos - 1) : ~(At(index, q) > f)
  ELSE Len(index)

\* mutant: the position of the node is used as the cell index
ToCellIndexKept(ci) == ci

\* "convert to cell index": if (ci != this->StartI()) {ci--;}
ToCellIndex(ci) == IF ci # 0 THEN ci - 1 ELSE ci

\* the coarse cell of a fine cell
CoarseOf(f) ==
  <<ToCellIndex(FirstAbove(keptIndex[1], f[1])),
    ToCellIndex(FirstAbove(keptIndex[2], f[2]))>>

\* coarseNodes.EndI() - 1: the coarse cells in a direction
NumCoarse(dir) == Len(keptIndex[dir]) - 1

\* coarseToFine.equal_range(c): the fine cells recorded for a coarse cell
EqualRange(c) == {f \in FineCellSet : toCoarse[f] = c}

RECURSIVE VolSum(_)
\* volSum: the sum of the volumes of a set of fine cells
VolSum(cells) ==
  IF cells = {} THEN 0
  ELSE LET f == CHOOSE g \in cells : TRUE
       IN  fineVol[f] + VolSum(cells \ {f})

CoarsenInit ==
  /\ NotCoarsenIdle
  /\ surfBoundary \in {<<b1, b2>> : b1 \in SurfaceBoundarySets(1),
                                   b2 \in SurfaceBoundarySets(2)}
  /\ fineVol \in VolumeFields
  /\ keptIndex = <<<<>>, <<>>>>
  /\ sinceLastKept = 0
  /\ toCoarse = [f \in FineCellSet |-> <<0, 0>>]
  /\ volFac = [f \in FineCellSet |-> FromInt(0)]
  /\ coarsenLoop = 0
  /\ coarsenPc = "index1"

\* one pass of the loop that determines the indices of a direction to keep
KeepIndex(dir, pc) ==
  /\ coarsenPc = pc
  /\ coarsenLoop < NumNodes(dir)
  /\ IF IsSurfaceBoundary(dir, coarsenLoop) \/ KeepEveryOther(sinceLastKept)
     THEN /\ keptIndex' = [keptIndex EXCEPT ![dir] = Append(@, coarsenLoop)]
          /\ sinceLastKept' = 0
     ELSE /\ sinceLastKept' = sinceLastKept + 1
          /\ UNCHANGED keptIndex
  /\ coarsenLoop' = coarsenLoop + 1
  /\ UNCHANGED <<surfBoundary, fineVol, toCoarse, volFac, coarsenPc>>
  /\ UNCHANGED notCoarsenVars

\* the end of that loop; sinceLastKept = 0 before the next one
KeepIndexDone(dir, pc, next) ==
  /\ coarsenPc = pc
  /\ coarsenLoop = NumNodes(dir)
  /\ coarsenPc' = next
  /\ coarsenLoop' = 0
  /\ sinceLastKept' = 0
  /\ UNCHANGED <<surfBoundary, fineVol, keptIndex, toCoarse, volFac>>
  /\ UNCHANGED notCoarsenVars

KeepIndexI == KeepIndex(1, "index1")
KeepIndexIDone == KeepIndexDone(1, "index1", "index2")
KeepIndexJ == KeepIndex(2, "index2")
KeepIndexJDone == KeepIndexDone(2, "index2", "map")

\* one pass of the loop over the fine cells, fi fastest
MapFineCell ==
  /\ coarsenPc = "map"
  /\ coarsenLoop < FineCellsI * FineCellsJ
  /\ LET f == <<coarsenLoop % FineCellsI, coarsenLoop \div FineCellsI>>
     IN  toCoarse' = [toCoarse EXCEPT ![f] = CoarseOf(f)]
  /\ coarsenLoop' = coarsenLoop + 1
  /\ UNCHANGED <<surfBoundary, fineVol, keptIndex, sinceLastKept, volFac, coarsenPc>>
  /\ UNCHANGED notCoarsenVars

MapFineCellDone ==
  /\ coarsenPc = "map"
  /\ coarsenLoop = FineCellsI * FineCellsJ
  /\ coarsenPc' = "volFac"
  /\ coarsenLoop' = 0
  /\ UNCHANGED <<surfBoundary, fineVol, keptIndex, sinceLastKept, toCoarse, volFac>>
  /\ UNCHANGED notCoarsenVars

\* one pass of the loop over the coarse cells, ci fastest
VolFacCoarseCell ==
  /\ coarsenPc = "volFac"
  /\ coarsenLoop < NumCoarse(1) * NumCoarse(2)
  /\ LET c == <<coarsenLoop % NumCoarse(1), coarsenLoop \div NumCoarse(1)>>
         range == EqualRange(c)
         volSum == VolSum(range)
     IN  volFac' = [f \in FineCellSet |->
                      IF f \in range THEN RDiv(FromInt(fineVol[f]), FromInt(volSum))
                      ELSE volFac[f]]
  /\ coarsenLoop' = coarsenLoop + 1
  /\ UNCHANGED <<surfBoundary, fineVol, keptIndex, sinceLastKept, toCoarse, coarsenPc>>
  /\ UNCHANGED notCoarsenVars

GetCoarseMeshAndBCsReturn ==
  /\ coarsenPc = "volFac"
  /\ coarsenLoop = NumCoarse(1) * NumCoarse(2)
  /\ coarsenPc' = "done"
  /\ UNCHANGED <<surfBoundary, fineVol, keptIndex, sinceLastKept, toCoarse, volFac,
                 coarsenLoop>>
  /\ UNCHANGED notCoarsenVars

CoarsenNext ==
  \/ KeepIndexI
  \/ KeepIndexIDone
  \/ KeepIndexJ
  \/ KeepIndexJDone
  \/ MapFineCell
  \/ MapFineCellDone
  \/ VolFacCoarseCell
  \/ GetCoarseMeshAndBCsReturn

SpecCoarsen == CoarsenInit /\ [][CoarsenNext]_vars

\* the index lists of both directions are complete
IndicesChosen == coarsenPc \in {"map", "volFac", "done"}

Kept(dir, ind) == \E pos \in 1 .. Len(keptIndex[dir]) : keptIndex[dir][pos] = ind

\* C19: once the indices of a direction are chosen, every index on a boundary
\* surface is kept, any other index is kept exactly when the index before it
\* was dropped, no two consecutive indices are dropped, and the first and the
\* last index are kept.
C19_EveryOtherIndexKept ==
  IndicesChosen =>
    \A dir \in CoarsenDirs :
      /\ \A ind \in 0 .. (NumNodes(dir) - 1) :
           /\ IsSurfaceBoundary(dir, ind) => Kept(dir, ind)
           /\ (~IsSurfaceBoundary(dir, ind)) =>
                (Kept(dir, ind) <=> (ind > 0 /\ ~Kept(dir, ind - 1)))
           /\ ind > 0 => (Kept(dir, ind) \/ Kept(dir, ind - 1))
      /\ Kept(dir, 0)
      /\ Kept(dir, NumNodes(dir) - 1)

\* witness of C19: in direction i an interior index off every surface was
\* dropped, another was kept, and an interior boundary index was kept right
\* after a kept index
C19_Witness ==
  /\ coarsenPc = "done"
  /\ \E ind \in 1 .. (NumNodes(1) - 2) :
       (~IsSurfaceBoundary(1, ind)) /\ ~Kept(1, ind)
  /\ \E ind \in 1 .. (NumNodes(1) - 2) :
       (~IsSurfaceBoundary(1, ind)) /\ Kept(1, ind)
  /\ \E ind \in 1 .. (NumNodes(1) - 2) :
       IsSurfaceBoundary(1, ind) /\ Kept(1, ind - 1)

\* the coarse cells and the fine cells between the kept nodes of a coarse cell
CoarseCellSet == (0 .. (NumCoarse(1) - 1)) \X (0 .. (NumCoarse(2) - 1))
Contains(c, f) ==
  \A dir \in CoarsenDirs :
    /\ At(keptIndex[dir], c[dir]) <= f[dir]
    /\ f[dir] < At(keptIndex[dir], c[dir] + 1)

RECURSIVE FacSum(_)
\* the sum of the weighting factors of a set of fine cells
FacSum(cells) ==
  IF cells = {} THEN FromInt(0)
  ELSE LET f == CHOOSE g \in cells : TRUE
       IN  RAdd(volFac[f], FacSum(cells \ {f}))

\* C20: after the call every fine cell is mapped to the one coarse cell whose
\* kept-node interval contains it, every coarse cell has a fine cell mapped to
\* it, and the weighting factors of the fine cells of a coarse cell are their
\* volumes over the summed volume and sum to 1.
C20_MapAndVolumeWeights ==
  coarsenPc = "done" =>
    /\ \A f \in FineCellSet :
         /\ toCoarse[f] \in CoarseCellSet
         /\ \A c \in CoarseCellSet : Contains(c, f) <=> c = toCoarse[f]
    /\ \A c \in CoarseCellSet :
         /\ EqualRange(c) # {}
         /\ RIsOne(FacSum(EqualRange(c)))
         /\ \A f \in EqualRange(c) :
              volFac[f] = Canon(fineVol[f], VolSum(EqualRange(c)))

\* witness of C20: the call returned with a coarse cell made of several fine
\* cells of different volumes and another made of one fine cell
C20_Witness ==
  /\ coarsenPc = "done"
  /\ \E c \in CoarseCellSet : \E f, g \in EqualRange(c) :
       fineVol[f] # fineVol[g] /\ volFac[f] # volFac[g]
  /\ \E c \in CoarseCellSet : \E f \in FineCellSet :
       EqualRange(c) = {f} /\ volFac[f] = FromInt(1)

(***************************************************************************)
(* procBlock::Split and procBlock::Join along the direction dir, for one   *)
(* line of cells in that direction (Slice(dir, range) takes the other two  *)
(* directions whole).  An array is [g |-> ghost layers, data |-> values];  *)
(* its indices run over -g .. n + g - 1.  A block is                       *)
(* [vol |-> cell array, fArea |-> face array of the direction dir].        *)
(***************************************************************************)
SplitCells == 3
SplitGhosts == 1

\* multiArray3d::Start, PhysStart, PhysEnd, End of an array
ArrStart(arr) == 0 - arr.g
ArrPhysEnd(arr) == Len(arr.data) - (2 * arr.g)
ArrEnd(arr) == Len(arr.data) - arr.g
ArrElem(arr, ind) == arr.data[ind + arr.g + 1]

\* the array a procBlock constructor makes: n entries and ghosts, all zero
NewArray(n, g) == [g |-> g, data |-> [p \in 1 .. (n + (2 * g)) |-> 0]]

\* multiArray3d::Slice(dir, {from, to}): the entries from .. to - 1
ArrSlice(arr, from, to) == [p \in 1 .. (to - from) |-> ArrElem(arr, from + p - 1)]

\* "slice dimensions must match destination extents exactly"
FillFits(arr, slice) == Len(slice) = Len(arr.data)

\* multiArray3d::Fill: the values of the slice are copied from the first entry
\* on; with a slice of the extent of the array this replaces every entry
Fill(arr, slice) ==
  [arr EXCEPT !.data = [p \in 1 .. Len(arr.data) |->
                          IF p <= Len(slice) THEN slice[p] ELSE arr.data[p]]]

\* multiArray3d::Insert(dir, {from, to}, slice)
ArrInsert(arr, from, to, slice) ==
  [arr EXCEPT !.data = [p \in 1 .. Len(arr.data) |->
                          IF (from + arr.g + 1 <= p) /\ (p <= to + arr.g)
                          THEN slice[p - (from + arr.g)] ELSE arr.data[p]]]

\* the arrays of a block, and for each the entries it has more than cells
\* along dir: the faces of the direction dir are one more
SplitArrays == {"vol", "fArea", "dt"}
FaceFac(name) == IF name = "fArea" THEN 1 ELSE 0

\* NumI(): the physical cells of a block
NumSplit(blk) == ArrPhysEnd(blk.vol)

\* mutant: the slice for the upper block starts at the first of its lower ghosts
UpperSliceStartGhost(arr, ind) == ind - arr.g

\* the slice Split takes for blk2 is {ind, End(dir)}
UpperSliceStart(arr, ind) == ind

\* blk1 of Split: filled with {Start(dir), blk1.End(dir)} of every array
SplitLower(blk, ind) ==
  [name \in SplitArrays |->
     LET arr1 == NewArray(ind + FaceFac(name), blk[name].g)
     IN  Fill(arr1, ArrSlice(blk[name], ArrStart(blk[name]), ArrEnd(arr1)))]

\* the slices Split takes for blk2
UpperSlice(blk, ind, name) ==
  ArrSlice(blk[name], UpperSliceStart(blk[name], ind), ArrEnd(blk[name]))

\* blk2 as the constructor makes it
NewUpper(blk, ind) ==
  [name \in SplitArrays |->
     NewArray((NumSplit(blk) - ind) + FaceFac(name), blk[name].g)]

\* blk2 of Split
SplitUpper(blk, ind) ==
  [name \in SplitArrays |-> Fill(NewUpper(blk, ind)[name], UpperSlice(blk, ind, name))]

\* every fill of blk2 has the extent of its array
UpperFillsFit(blk, ind) ==
  \A name \in SplitArrays : FillFits(NewUpper(blk, ind)[name], UpperSlice(blk, ind, name))

\* Join of one array: the lower block up to its physical end, then the upper
\* block from its physical start, one face later for the faces of dir
JoinArray(lower, upper, fac) ==
  LET new == NewArray((ArrPhysEnd(lower) + ArrPhysEnd(upper)) - fac, lower.g)
      low == ArrInsert(new, ArrStart(lower), ArrPhysEnd(lower),
                       ArrSlice(lower, ArrStart(lower), ArrPhysEnd(lower)))
  IN  ArrInsert(low, ArrPhysEnd(lower), ArrEnd(new),
                ArrSlice(upper, 0 + fac, ArrEnd(upper)))

\* the blocks a line of cells can be: volumes and time steps from a set, face
\* areas all different
SplitVolumes == [1 .. (SplitCells + (2 * SplitGhosts)) -> {1, 2}]
SplitAreas == [p \in 1 .. (SplitCells + 1 + (2 * SplitGhosts)) |-> 10 + p]
SplitDts == [1 .. SplitCells -> {5, 6}]

SplitInit ==
  /\ NotSplitIdle
  /\ sjOrig \in {[vol |-> [g |-> SplitGhosts, data |-> v],
                  fArea |-> [g |-> SplitGhosts, data |-> SplitAreas],
                  dt |-> [g |-> 0, data |-> t]] :
                 v \in SplitVolumes, t \in SplitDts}
  /\ sjBlk = sjOrig
  /\ sjUpper = <<>>
  /\ sjInd \in 1 .. (SplitCells - 1)
  /\ sjPc = "whole"

\* procBlock::Split(dir, ind)
Split ==
  /\ sjPc = "whole"
  /\ sjUpper' = SplitUpper(sjBlk, sjInd)
  /\ sjBlk' = SplitLower(sjBlk, sjInd)
  /\ sjPc' = "split"
  /\ UNCHANGED <<sjOrig, sjInd>>
  /\ UNCHANGED notSplitVars

\* procBlock::Split(dir, ind) in a build that checks the extent of a fill: a
\* slice of another extent than its array ends the run
SplitAborts ==
  /\ sjPc = "whole"
  /\ ~UpperFillsFit(sjBlk, sjInd)
  /\ sjPc' = "failed"
  /\ UNCHANGED <<sjOrig, sjBlk, sjUpper, sjInd>>
  /\ UNCHANGED notSplitVars

\* procBlock::Join(blk, dir)
Join ==
  /\ sjPc = "split"
  /\ sjBlk' = [name \in SplitArrays |->
                 JoinArray(sjBlk[name], sjUpper[name], FaceFac(name))]
  /\ sjPc' = "joined"
  /\ UNCHANGED <<sjOrig, sjUpper, sjInd>>
  /\ UNCHANGED notSplitVars

SplitNext ==
  \/ Split
  \/ SplitAborts
  \/ Join

SpecSplit == SplitInit /\ [][SplitNext]_vars

\* the physical entries from .. to - 1 of an array are those of the original
\* array from the index at on
SameEntries(arr, from, to, orig, at) ==
  \A ind \in from .. (to - 1) : ArrElem(arr, ind) = ArrElem(orig, (at + ind) - from)

\* C21: Split leaves the receiver with the ind lower cells and returns the
\* upper cells, and joining the returned block onto the receiver gives back
\* the volumes and face areas of the original block, same dimensions and same
\* value at every index.
C21_SplitJoinRoundTrip ==
  /\ sjPc # "failed"
  /\ sjPc = "split" =>
       /\ NumSplit(sjBlk) = sjInd
       /\ NumSplit(sjUpper) = NumSplit(sjOrig) - sjInd
       /\ SameEntries(sjBlk.vol, 0, sjInd, sjOrig.vol, 0)
       /\ SameEntries(sjUpper.vol, 0, NumSplit(sjUpper), sjOrig.vol, sjInd)
       /\ SameEntries(sjBlk.fArea, 0, sjInd + 1, sjOrig.fArea, 0)
       /\ SameEntries(sjUpper.fArea, 0, NumSplit(sjUpper) + 1, sjOrig.fArea, sjInd)
  /\ sjPc = "joined" =>
       /\ sjBlk.vol = sjOrig.vol
       /\ sjBlk.fArea = sjOrig.fArea

(***************************************************************************)
(* One run of the solver as far as its error diagnostics go: the start-up  *)
(* loop of main over the blocks, procBlock::CalcBlockTimeStep and          *)
(* procBlock::UpdateBlock over the cells of a block.                       *)
(***************************************************************************)
NumRunCells == 2

RunCells == 0 .. (NumRunCells - 1)
RunBlocks == 0 .. (NumBlocks - 1)

\* EXIT_FAILURE
ExitFailure == 1

RunInputs ==
  [equationSet : {"euler", "navierStokes", "other"},
   dt : {0, 2},
   cfl : {0, 3},
   refs : {<<1, 1>>, <<3, 2>>},
   timeIntegration : {"explicitEuler", "rk4", "implicit", "other"}]

\* mutant: the flow spectral radius alone
SpecRadiusFlow(rad) == rad[1]

\* uncoupledScalar::Max
SpecRadiusMax(rad) == IF rad[1] < rad[2] THEN rad[2] ELSE rad[1]

\* procBlock::CalcCellDt: cfl * (vol / specRadius.Max())
CalcCellDt(cfl, vol, rad) ==
  RMul(FromInt(cfl), RDiv(FromInt(vol), FromInt(SpecRadiusMax(rad))))

\* inp.Dt() * inp.ARef() / inp.LRef()
GlobalDt(inp) == RDiv(RMul(FromInt(inp.dt), FromInt(inp.refs[1])), FromInt(inp.refs[2]))

RunInit ==
  /\ NotRunIdle
  /\ runInput \in RunInputs
  /\ runVol \in {[c \in RunCells |-> 1], [c \in RunCells |-> 1 + c]}
  /\ runSpecRadius \in [RunCells -> {<<1, 2>>, <<4, 2>>}]
  /\ runDt = [c \in RunCells |-> <<0, 0>>]
  /\ runUpdated = {}
  /\ runDiag = <<>>
  /\ runAfterDiag = 0
  /\ exitStatus = 0 - 1
  /\ runLoop = 0
  /\ runPc = "init"

\* processing one more block or cell: it counts when a diagnostic was written
AfterDiag == IF runDiag # <<>> THEN runAfterDiag + 1 ELSE runAfterDiag

\* main: one pass of the loop over the blocks that initialises the mesh
MainInitBlock ==
  /\ runPc = "init"
  /\ runLoop < NumBlocks
  /\ IF runInput.equationSet \in {"navierStokes", "euler"}
     THEN /\ runLoop' = runLoop + 1
          /\ UNCHANGED <<runDiag, exitStatus, runPc>>
     ELSE /\ runDiag' = Append(runDiag, "equationSet")
          /\ exitStatus' = 0
          /\ runPc' = "exited"
          /\ UNCHANGED runLoop
  /\ runAfterDiag' = AfterDiag
  /\ UNCHANGED <<runInput, runVol, runSpecRadius, runDt, runUpdated>>
  /\ UNCHANGED notRunVars

MainInitDone ==
  /\ runPc = "init"
  /\ runLoop = NumBlocks
  /\ runPc' = "timeStep"
  /\ runLoop' = 0
  /\ UNCHANGED <<runInput, runVol, runSpecRadius, runDt, runUpdated, runDiag,
                 runAfterDiag, exitStatus>>
  /\ UNCHANGED notRunVars

\* procBlock::CalcBlockTimeStep: one pass of the loop over the cells
CalcBlockTimeStepCell ==
  /\ runPc = "timeStep"
  /\ runLoop < NumRunCells
  /\ IF runInput.dt > 0
     THEN /\ runDt' = [runDt EXCEPT ![runLoop] = GlobalDt(runInput)]
          /\ runLoop' = runLoop + 1
          /\ UNCHANGED <<runDiag, exitStatus, runPc>>
     ELSE IF runInput.cfl > 0
     THEN /\ runDt' = [runDt EXCEPT ![runLoop] =
                         CalcCellDt(runInput.cfl, runVol[runLoop],
                                    runSpecRadius[runLoop])]
          /\ runLoop' = runLoop + 1
          /\ UNCHANGED <<runDiag, exitStatus, runPc>>
     ELSE /\ runDiag' = Append(runDiag, "timeStep")
          /\ exitStatus' = ExitFailure
          /\ runPc' = "exited"
          /\ UNCHANGED <<runDt, runLoop>>
  /\ runAfterDiag' = AfterDiag
  /\ UNCHANGED <<runInput, runVol, runSpecRadius, runUpdated>>
  /\ UNCHANGED notRunVars

CalcBlockTimeStepDone ==
  /\ runPc = "timeStep"
  /\ runLoop = NumRunCells
  /\ runPc' = "update"
  /\ runLoop' = 0
  /\ UNCHANGED <<runInput, runVol, runSpecRadius, runDt, runUpdated, runDiag,
                 runAfterDiag, exitStatus>>
  /\ UNCHANGED notRunVars

\* the time integration schemes UpdateBlock has a branch for
SchemeRecognized(scheme) == scheme \in {"explicitEuler", "rk4", "implicit"}

\* procBlock::UpdateBlock: one pass of the loop over the cells; after the
\* diagnostic for an unrecognised scheme the loop goes on, and the residual
\* norms are accumulated whatever branch was taken
RunUpdateBlockCell ==
  /\ runPc = "update"
  /\ runLoop < NumRunCells
  /\ runAfterDiag' = AfterDiag
  /\ IF SchemeRecognized(runInput.timeIntegration)
     THEN /\ runUpdated' = runUpdated \cup {runLoop}
          /\ runLoop' = runLoop + 1
          /\ UNCHANGED <<runDiag, exitStatus, runPc>>
     ELSE /\ runDiag' = Append(runDiag, "timeIntegration")
          /\ runLoop' = runLoop + 1
          /\ UNCHANGED <<runUpdated, exitStatus, runPc>>
  /\ UNCHANGED <<runInput, runVol, runSpecRadius, runDt>>
  /\ UNCHANGED notRunVars

\* the end of the run: main returns 0
RunReturn ==
  /\ runPc = "update"
  /\ runLoop = NumRunCells
  /\ runPc' = "returned"
  /\ exitStatus' = 0
  /\ UNCHANGED <<runInput, runVol, runSpecRadius, runDt, runUpdated, runDiag,
                 runAfterDiag, runLoop>>
  /\ UNCHANGED notRunVars

RunNext ==
  \/ MainInitBlock
  \/ MainInitDone
  \/ CalcBlockTimeStepCell
  \/ CalcBlockTimeStepDone
  \/ RunUpdateBlockCell
  \/ RunReturn

SpecRun == RunInit /\ [][RunNext]_vars

\* CalcBlockTimeStep has returned
TimeStepSet == runPc \in {"update", "returned"}

\* C22: after CalcBlockTimeStep every cell has the time step Dt * aRef / LRef
\* when Dt > 0, whatever the CFL number, and otherwise
\* CFL * V / max(flow, turbulence spectral radius) of that cell.
C22_TimeStepGlobalOrLocal ==
  TimeStepSet =>
    \A c \in RunCells :
      runDt[c] =
        IF runInput.dt > 0
        THEN Canon(runInput.dt * runInput.refs[1], runInput.refs[2])
        ELSE Canon(runInput.cfl * runVol[c],
                   IF runSpecRadius[c][1] > runSpecRadius[c][2]
                   THEN runSpecRadius[c][1] ELSE runSpecRadius[c][2])

\* witness of C22: the time step was set from the CFL number in a block whose
\* cells differ in volume and whose turbulence spectral radius is the larger
\* in one cell and the smaller in another
C22_Witness ==
  /\ TimeStepSet
  /\ runInput.dt = 0
  /\ runInput.cfl > 0
  /\ \E c, e \in RunCells :
       /\ runVol[c] # runVol[e]
       /\ runSpecRadius[c][1] < runSpecRadius[c][2]
       /\ runSpecRadius[e][1] > runSpecRadius[e][2]
       /\ runDt[c] # runDt[e]

\* C23: every error diagnostic is fatal: once one is written the process has
\* ended with a non-zero exit status and nothing was processed after it.
C23_DiagnosticsAreFatal ==
  runDiag # <<>> =>
    /\ runPc = "exited"
    /\ exitStatus > 0
    /\ runAfterDiag = 0

(***************************************************************************)
(* The "t" intersection of the header comment of procBlock::PutGeomSlice,  *)
(* in the plane and with one layer of ghost cells.  Block 0 holds the      *)
(* cells <<0, 0>> and <<0, 1>>, block 1 the cell <<1, 0>> and block 2 the  *)
(* cell <<1, 1>>; positions are those of the whole grid, so a ghost cell   *)
(* of a block and the cell it abuts have the same position.  Geometry is   *)
(* <<x, y, vol>>: the cell it is the geometry of, and its volume.          *)
(***************************************************************************)
TeeVolumes == 2

TeeBlocks == {0, 1, 2}
TeePhys(b) == IF b = 0 THEN {<<0, 0>>, <<0, 1>>}
              ELSE IF b = 1 THEN {<<1, 0>>} ELSE {<<1, 1>>}
TeeCells == TeePhys(0) \cup TeePhys(1) \cup TeePhys(2)

\* the connections, as <<first block, second block>>
TeeConns == {<<0, 1>>, <<0, 2>>, <<1, 2>>}
TeePartner(c, b) == IF c[1] = b THEN c[2] ELSE c[1]

\* the ghost positions of a block: the cells around its own
TeeGhostCells(b) ==
  {q \in ((0 - 1) .. 2) \X ((0 - 1) .. 2) :
     /\ q \notin TeePhys(b)
     /\ \E c \in TeePhys(b) :
          /\ q[1] - c[1] \in {0 - 1, 0, 1}
          /\ q[2] - c[2] \in {0 - 1, 0, 1}}

\* the ghost cells across the patch of a connection: the cells of the partner
\* that touch a cell of the block
TeePatch(c, b) ==
  {q \in TeePhys(TeePartner(c, b)) :
     \E o \in TeePhys(b) :
       \/ (q[1] = o[1] /\ q[2] - o[2] \in {0 - 1, 1})
       \/ (q[2] = o[2] /\ q[1] - o[1] \in {0 - 1, 1})}

\* the patch runs along y when the partner lies in x, and along x otherwise
TeeAlongY(c, b) == \E q \in TeePatch(c, b) : \E o \in TeePhys(b) : q[2] = o[2]

\* the cells of a slice past the two ends of the patch
TeeExtension(c, b) ==
  {q \in TeeGhostCells(b) \ TeePatch(c, b) :
     \E o \in TeePatch(c, b) :
       IF TeeAlongY(c, b) THEN q[1] = o[1] /\ q[2] - o[2] \in {0 - 1, 1}
       ELSE q[2] = o[2] /\ q[1] - o[1] \in {0 - 1, 1}}

\* adjS, adjE: an end of the patch that borders another connection on the same
\* surface of the block is left out of the insertion
TeeInterBorder(c, b, q) ==
  \E o \in TeeConns : o # c /\ b \in {o[1], o[2]} /\ q \in TeePatch(o, b)

\* the cells PutGeomSlice goes over for a connection of a block
TeeRegion(c, b) ==
  TeePatch(c, b) \cup {q \in TeeExtension(c, b) : ~TeeInterBorder(c, b, q)}

\* the ghost cells of the surfaces with a connection and of the block edges
\* are not assigned by AssignGhostCellsGeom: their volume is 0
TeeUnassigned(b, q) ==
  \/ \E c \in TeeConns : b \in {c[1], c[2]} /\ q \in TeePatch(c, b)
  \/ \A o \in TeePhys(b) : q[1] # o[1] /\ q[2] # o[2]

\* the interior cell a ghost cell of a boundary surface mirrors
TeeMirror(b, q) ==
  CHOOSE o \in TeePhys(b) :
    \/ (q[1] = o[1] /\ q[2] - o[2] \in {0 - 1, 1})
    \/ (q[2] = o[2] /\ q[1] - o[1] \in {0 - 1, 1})

TeeGeom(q) == <<q[1], q[2], teeVol[q]>>

\* geomSlice(blk, ...): the geometry a block holds at a position, cell or ghost
TeeSlice(b, q) == IF q \in TeePhys(b) THEN TeeGeom(q) ELSE teeGhost[b][q]

\* mutant: a cell of the slice is inserted whatever its volume
TeeInsertsAlways(geom) == TRUE

\* "don't overwrite with garbage": a slice cell of volume 0 is not inserted
TeeInserts(geom) == geom[3] # 0

\* procBlock::PutGeomSlice of block b for the connection c
TeePutGeomSlice(ghost, c, b) ==
  [q \in TeeGhostCells(b) |->
     IF q \in TeeRegion(c, b) /\ TeeInserts(TeeSlice(TeePartner(c, b), q))
     THEN TeeSlice(TeePartner(c, b), q)
     ELSE ghost[q]]

\* adjEdge: a slice cell of volume 0 met at a block edge
TeeAdjEdge(c, b) ==
  \E q \in TeeRegion(c, b) \cap TeeExtension(c, b) :
    ~TeeInserts(TeeSlice(TeePartner(c, b), q))

TeeInit ==
  /\ NotTeeIdle
  /\ teeVol \in [TeeCells -> 1 .. TeeVolumes]
  /\ teeGhost = [b \in TeeBlocks |->
                   [q \in TeeGhostCells(b) |->
                      IF TeeUnassigned(b, q) THEN <<0, 0, 0>>
                      ELSE TeeGeom(TeeMirror(b, q))]]
  /\ teeSwapped = {}
  /\ teeBorder = {}

\* SwapGeomSlice(conn, blocks_[first], blocks_[second]): both slices are
\* taken, then each block inserts the slice of the other
SwapGeomSlice(c) ==
  /\ c \notin teeSwapped
  /\ teeGhost' = [teeGhost EXCEPT ![c[1]] = TeePutGeomSlice(@, c, c[1]),
                                  ![c[2]] = TeePutGeomSlice(@, c, c[2])]
  /\ teeBorder' = teeBorder \cup {<<c, b>> : b \in {o \in {c[1], c[2]} : TeeAdjEdge(c, o)}}
  /\ teeSwapped' = teeSwapped \cup {c}
  /\ UNCHANGED teeVol
  /\ UNCHANGED notTeeVars

TeeNext == \E c \in TeeConns : SwapGeomSlice(c)

SpecTee == TeeInit /\ [][TeeNext]_vars

\* the ghost cells of the three blocks along the connections
TeeAlongConns(b) == UNION {TeeRegion(c, b) : c \in {o \in TeeConns : b \in {o[1], o[2]}}}

\* C24: when the three connections have been swapped, in whatever order, every
\* ghost cell along them, block edges included, holds geometry of non-zero
\* volume, that of the cell it abuts; and no swap replaces geometry of
\* non-zero volume by geometry of volume 0.
C24_TeeGhostsValid ==
  /\ [](teeSwapped = TeeConns =>
          \A b \in TeeBlocks : \A q \in TeeAlongConns(b) :
            /\ teeGhost[b][q][3] # 0
            /\ q \in TeeCells => teeGhost[b][q] = TeeGeom(q))
  /\ [][\A b \in TeeBlocks : \A q \in TeeGhostCells(b) :
          teeGhost[b][q][3] # 0 => teeGhost'[b][q][3] # 0]_vars

\* witness of C24: the three swaps are done, the swap of blocks 1 and 2 met an
\* edge cell of volume 0 and left it alone, and block 1 holds the geometry of
\* the cell of block 0 in its edge ghost cell
C24_Witness ==
  /\ teeSwapped = TeeConns
  /\ <<<<1, 2>>, 1>> \in teeBorder
  /\ teeGhost[1][<<0, 1>>] = TeeGeom(<<0, 1>>)

(***************************************************************************)
(* The linear solver handle of a grid level (gridLevel.cpp).  Level 0 is   *)
(* built by the constructor and may be replaced by the level SendGridLevel *)
(* returns; level l + 1 is built by Coarsen of level l.  The driver runs   *)
(* the steps of one iteration on a level: CalcResidual in both paths, the  *)
(* routines of the solver in the implicit path only.                       *)
(***************************************************************************)
MaxLevels == 2

Levels == 0 .. (MaxLevels - 1)

\* mutant: the constructor and Coarsen assign a solver whatever the scheme
SetsUpSolverAlways(implicit) == TRUE

\* "if (inp.IsImplicit())" around the assignment of solver_
SetsUpSolver(implicit) == implicit

Deref(l, routine) == [level |-> l, routine |-> routine, assigned |-> solAssigned[l]]

SolverInit ==
  /\ NotSolverIdle
  /\ solImplicit \in BOOLEAN
  /\ solBuilt = [l \in Levels |-> "none"]
  /\ solAssigned = [l \in Levels |-> FALSE]
  /\ solDeref = {}

\* gridLevel::gridLevel
GridLevelConstructor ==
  /\ solBuilt[0] = "none"
  /\ solBuilt' = [solBuilt EXCEPT ![0] = "constructor"]
  /\ solAssigned' = [solAssigned EXCEPT ![0] = SetsUpSolver(solImplicit)]
  /\ UNCHANGED <<solImplicit, solDeref>>
  /\ UNCHANGED notSolverVars

\* gridLevel::SendGridLevel: the level returned takes the place of the global
\* one; its solver is assigned whatever the scheme
SendGridLevel ==
  /\ solBuilt[0] = "constructor"
  /\ \A l \in Levels : l > 0 => solBuilt[l] = "none"
  /\ solBuilt' = [solBuilt EXCEPT ![0] = "sent"]
  /\ solAssigned' = [solAssigned EXCEPT ![0] = TRUE]
  /\ UNCHANGED <<solImplicit, solDeref>>
  /\ UNCHANGED notSolverVars

\* gridLevel::Coarsen of level l
CoarsenLevel(l) ==
  /\ l + 1 \in Levels
  /\ solBuilt[l] # "none"
  /\ solBuilt[l + 1] = "none"
  /\ solBuilt' = [solBuilt EXCEPT ![l + 1] = "coarsened"]
  /\ solAssigned' = [solAssigned EXCEPT ![l + 1] = SetsUpSolver(solImplicit)]
  /\ UNCHANGED <<solImplicit, solDeref>>
  /\ UNCHANGED notSolverVars

\* gridLevel::CalcResidual of level l: solver_->A(bb), in both paths
LevelCalcResidual(l) ==
  /\ solBuilt[l] # "none"
  /\ solDeref' = solDeref \cup {Deref(l, "CalcResidual")}
  /\ UNCHANGED <<solImplicit, solBuilt, solAssigned>>
  /\ UNCHANGED notSolverVars

\* ResetDiagonal, InvertDiagonal and UpdateBlocks of level l: the implicit path
LevelImplicitStep(l, routine) ==
  /\ solImplicit
  /\ solBuilt[l] # "none"
  /\ solDeref' = solDeref \cup {Deref(l, routine)}
  /\ UNCHANGED <<solImplicit, solBuilt, solAssigned>>
  /\ UNCHANGED notSolverVars

\* gridLevel::Restriction from level l to level l + 1: the coarse level
\* calculates its residual and inverts its diagonal, then the solver of the
\* fine level restricts the update
LevelRestriction(l) ==
  /\ solImplicit
  /\ l + 1 \in Levels
  /\ solBuilt[l] # "none"
  /\ solBuilt[l + 1] # "none"
  /\ solDeref' = solDeref \cup {Deref(l + 1, "CalcResidual"),
                               Deref(l + 1, "InvertDiagonal"),
                               Deref(l, "Restriction"),
                               Deref(l + 1, "Restriction")}
  /\ UNCHANGED <<solImplicit, solBuilt, solAssigned>>
  /\ UNCHANGED notSolverVars

\* gridLevel::Prolongation of level l + 1 to level l
LevelProlongation(l) ==
  /\ solImplicit
  /\ l + 1 \in Levels
  /\ solBuilt[l] # "none"
  /\ solBuilt[l + 1] # "none"
  /\ solDeref' = solDeref \cup {Deref(l + 1, "Prolongation"),
                               Deref(l, "Prolongation")}
  /\ UNCHANGED <<solImplicit, solBuilt, solAssigned>>
  /\ UNCHANGED notSolverVars

SolverNext ==
  \/ GridLevelConstructor
  \/ SendGridLevel
  \/ \E l \in Levels : CoarsenLevel(l)
  \/ \E l \in Levels : LevelCalcResidual(l)
  \/ \E l \in Levels :
       \E routine \in {"ResetDiagonal", "InvertDiagonal", "UpdateBlocks"} :
         LevelImplicitStep(l, routine)
  \/ \E l \in Levels : LevelRestriction(l)
  \/ \E l \in Levels : LevelProlongation(l)

SpecSolver == SolverInit /\ [][SolverNext]_vars

\* C26: whenever a grid level dereferences its linear solver handle, the
\* handle has been assigned a solver before; this includes a level built by
\* the constructor or by Coarsen under explicit time integration, whose
\* residual is calculated.
C26_HandleAssignedBeforeUse ==
  \A d \in solDeref : d.assigned

(***************************************************************************)
(* The explicit update of a block over the nonlinear iterations of a time  *)
(* step: gridLevel::ExplicitUpdate, procBlock::UpdateBlock and             *)
(* procBlock::RK4TimeAdvance.  A cell holds one conserved variable; dt_    *)
(* over vol_ is 1 and the coefficients are kept as twelfths.               *)
(***************************************************************************)
MaxRkIterations == 5
MaxRkSteps == 2
NumRkCells == 2

RkCells == 0 .. (NumRkCells - 1)
RkResiduals == {0, 12}

\* const double alpha[4] = {0.25, 1.0 / 3.0, 0.5, 1.0}, in twelfths
AlphaTwelfths == <<3, 4, 6, 12>>

\* the number of stages of the scheme
RkStages == Len(AlphaTwelfths)

\* mutant: the input keeps the number of nonlinear iterations it was given
NonlinearIterationsAsGiven(scheme, given) == given

\* the number of nonlinear iterations the input answers: under rk4 the four
\* stages of the scheme
NonlinearIterations(scheme, given) ==
  IF scheme = "rk4" THEN RkStages ELSE given

\* alpha[rk]: a read past the end of the table yields any value
AlphaRead(rk) ==
  IF rk \in 0 .. (RkStages - 1) THEN {AlphaTwelfths[rk + 1]} ELSE 0 .. 12

RkInputs ==
  {[timeIntegration |-> t, nonlinearIterations |-> NonlinearIterations(t, n)] :
     t \in {"explicitEuler", "rk4"}, n \in 1 .. MaxRkIterations}

RkInit ==
  /\ NotRkIdle
  /\ rkInput \in RkInputs
  /\ rkStep = 0
  /\ rkMm = 0
  /\ rkCell = 0
  /\ rkState \in [RkCells -> {24, 36}]
  /\ rkConsN = rkState
  /\ rkResid \in [RkCells -> RkResiduals]
  /\ rkUsed = {}
  /\ rkPc = "update"

\* one cell of UpdateBlock(inp, phys, du, mm, ...) as ExplicitUpdate calls it
RkUpdateBlockCell ==
  /\ rkPc = "update"
  /\ rkCell \in RkCells
  /\ IF rkInput.timeIntegration = "rk4"
     THEN /\ \E alpha \in AlphaRead(rkMm) :
               rkState' = [rkState EXCEPT ![rkCell] =
                             rkConsN[rkCell] - ((alpha * rkResid[rkCell]) \div 12)]
          /\ rkUsed' = rkUsed \cup {rkMm}
     ELSE /\ rkState' = [rkState EXCEPT ![rkCell] = @ - rkResid[rkCell]]
          /\ UNCHANGED rkUsed
  /\ rkCell' = rkCell + 1
  /\ UNCHANGED <<rkInput, rkStep, rkMm, rkConsN, rkResid, rkPc>>
  /\ UNCHANGED notRkVars

\* ExplicitUpdate returns: the next nonlinear iteration, or the next time step,
\* which starts from the state reached; the residual of a cell is taken to be
\* the same in every iteration
RkExplicitUpdateReturn ==
  /\ rkPc = "update"
  /\ rkCell = NumRkCells
  /\ IF rkMm + 1 < rkInput.nonlinearIterations
     THEN /\ rkMm' = rkMm + 1
          /\ UNCHANGED <<rkStep, rkConsN, rkPc>>
     ELSE IF rkStep + 1 < MaxRkSteps
     THEN /\ rkStep' = rkStep + 1
          /\ rkMm' = 0
          /\ rkConsN' = rkState
          /\ UNCHANGED rkPc
     ELSE /\ rkPc' = "done"
          /\ UNCHANGED <<rkStep, rkMm, rkConsN>>
  /\ rkCell' = 0
  /\ UNCHANGED <<rkInput, rkState, rkResid, rkUsed>>
  /\ UNCHANGED notRkVars

RkNext ==
  \/ RkUpdateBlockCell
  \/ RkExplicitUpdateReturn

SpecRk == RkInit /\ [][RkNext]_vars

NumAccCells == 2
MaxAccCalls == 3

AccCells == 0 .. (NumAccCells - 1)

Accumulators ==
  {"residual", "specRadius", "velocityGrad", "temperatureGrad", "densityGrad",
   "pressureGrad", "eddyViscosity", "f1", "f2", "tkeGrad", "omegaGrad",
   "mixtureGrad"}

\* a block is RANS only if turbulent, and turbulent only if viscous
AccFlagSets ==
  {f \in [isViscous : BOOLEAN, isTurbulent : BOOLEAN, isRANS : BOOLEAN,
          isMultiSpecies : BOOLEAN] :
     /\ f.isRANS => f.isTurbulent
     /\ f.isTurbulent => f.isViscous}

\* the accumulators the flux and gradient routines add into ("+=",
\* AddToResidual, SubtractFromResidual), under the flags of the block
AddedInto(flags) ==
  {"residual", "specRadius", "velocityGrad", "temperatureGrad", "densityGrad",
   "pressureGrad"}
  \cup (IF flags.isViscous /\ flags.isTurbulent THEN {"eddyViscosity"} ELSE {})
  \cup (IF flags.isViscous /\ flags.isTurbulent /\ flags.isRANS
        THEN {"f1", "f2"} ELSE {})
  \cup (IF flags.isRANS THEN {"tkeGrad", "omegaGrad"} ELSE {})
  \cup (IF flags.isMultiSpecies THEN {"mixtureGrad"} ELSE {})

\* mutant: ResetGradients zeroes the species gradients as well
ZeroedAtStartWithMixture(flags) ==
  {"residual", "specRadius", "velocityGrad", "temperatureGrad", "densityGrad",
   "pressureGrad"}
  \cup (IF flags.isRANS THEN {"tkeGrad", "omegaGrad"} ELSE {})
  \cup (IF flags.isTurbulent THEN {"eddyViscosity"} ELSE {})
  \cup (IF flags.isTurbulent /\ flags.isRANS THEN {"f1", "f2"} ELSE {})
  \cup (IF flags.isMultiSpecies THEN {"mixtureGrad"} ELSE {})

\* ResetResidWS, ResetGradients and, if turbulent, ResetTurbVars
ZeroedAtStart(flags) ==
  {"residual", "specRadius", "velocityGrad", "temperatureGrad", "densityGrad",
   "pressureGrad"}
  \cup (IF flags.isRANS THEN {"tkeGrad", "omegaGrad"} ELSE {})
  \cup (IF flags.isTurbulent THEN {"eddyViscosity"} ELSE {})
  \cup (IF flags.isTurbulent /\ flags.isRANS THEN {"f1", "f2"} ELSE {})

AccInit ==
  /\ NotAccIdle
  /\ accFlags \in AccFlagSets
  /\ accFace \in [AccCells -> 1 .. 2]
  /\ accField = [a \in Accumulators |-> [c \in AccCells |-> 0]]
  /\ accFirst = accField
  /\ accCalls = 0
  /\ accPc = "reset"

\* the head of CalcResidualNoSource: the resets
ResetAccumulators ==
  /\ accPc = "reset"
  /\ accCalls < MaxAccCalls
  /\ accField' = [a \in Accumulators |->
                    IF a \in ZeroedAtStart(accFlags)
                    THEN [c \in AccCells |-> 0]
                    ELSE accField[a]]
  /\ accPc' = "fluxes"
  /\ UNCHANGED <<accFlags, accFace, accFirst, accCalls>>
  /\ UNCHANGED notAccVars

\* the rest of CalcResidualNoSource: the passes over the i, j and k faces of
\* the flux routines (and of the gradient routines if not viscous)
AccumulateFluxes ==
  /\ accPc = "fluxes"
  /\ accField' = [a \in Accumulators |->
                    IF a \in AddedInto(accFlags)
                    THEN [c \in AccCells |-> accField[a][c] + (3 * accFace[c])]
                    ELSE accField[a]]
  /\ accFirst' = IF accCalls = 0 THEN accField' ELSE accFirst
  /\ accCalls' = accCalls + 1
  /\ accPc' = "reset"
  /\ UNCHANGED <<accFlags, accFace>>
  /\ UNCHANGED notAccVars

AccNext ==
  \/ ResetAccumulators
  \/ AccumulateFluxes

SpecAcc == AccInit /\ [][AccNext]_vars

\* C29: every accumulator CalcResidualNoSource adds into is zero in every
\* cell once the resets at the start of the call are done, and a further
\* call on an unchanged state leaves the accumulators as the first call did.
C29_AccumulatorsZeroedAtStart ==
  /\ accPc = "fluxes" =>
       \A a \in AddedInto(accFlags) : \A c \in AccCells : accField[a][c] = 0
  /\ (accPc = "reset" /\ accCalls >= 2) => accField = accFirst

(***************************************************************************)
(* The identity of the blocks gridLevel::Coarsen builds.  The fine level   *)
(* of a rank is the one SendGridLevel returned: blocks_[lp] is the block   *)
(* of the rank with local position lp, built by the constructor of the     *)
(* global level with its position in the decomposition as global position. *)
(***************************************************************************)
\* procBlock(blk, numBlk, bound, pos, r, lpos, inp)
BlockIdentity(numBlk, pos, r, lpos) ==
  [parBlock |-> numBlk, globalPos |-> pos, rank |-> r, localPos |-> lpos]

\* blocks_ of rank r after the constructor of the global level and
\* SendGridLevel, for a decomposition
FineBlocksOf(r, ranks, lpos, parents) ==
  LET mine == {b \in DOMAIN ranks : ranks[b] = r}
  IN [i \in 1 .. Cardinality(mine) |->
        LET b == CHOOSE o \in mine : lpos[o] = i - 1
        IN BlockIdentity(parents[b], b, ranks[b], lpos[b])]

\* mutant: the coarse block is given the global position of the fine block
CoarseBlockOfKeepingPos(fine, ll) ==
  BlockIdentity(fine.parBlock, fine.globalPos, fine.rank, fine.localPos)

\* coarse.blocks_.emplace_back(coarseMesh[ll], blocks_[ll].ParentBlock(),
\*   coarseBCs[ll], ll, blocks_[ll].Rank(), blocks_[ll].LocalPosition(), inp)
CoarseBlockOf(fine, ll) ==
  BlockIdentity(fine.parBlock, ll, fine.rank, fine.localPos)

CidInit ==
  /\ NotCidIdle
  /\ \E ranks \in [BlockIds(NumBlocks) -> Ranks] :
       \E lpos \in LocalPositions(ranks) :
         \E parents \in [BlockIds(NumBlocks) -> BlockIds(NumBlocks)] :
           cidFine = [r \in Ranks |-> FineBlocksOf(r, ranks, lpos, parents)]
  /\ cidCoarse = [r \in Ranks |-> <<>>]
  /\ cidPc = [r \in Ranks |-> "loop"]

\* one pass of "for (auto ll = 0U; ll < coarseMesh.size(); ++ll)" on rank r
CoarsenBlock(r) ==
  /\ cidPc[r] = "loop"
  /\ Len(cidCoarse[r]) < Len(cidFine[r])
  /\ LET ll == Len(cidCoarse[r])
     IN cidCoarse' = [cidCoarse EXCEPT ![r] =
                        Append(@, CoarseBlockOf(cidFine[r][ll + 1], ll))]
  /\ UNCHANGED <<cidFine, cidPc>>
  /\ UNCHANGED notCidVars

\* Coarsen returns the coarse level on rank r
CoarsenReturn(r) ==
  /\ cidPc[r] = "loop"
  /\ Len(cidCoarse[r]) = Len(cidFine[r])
  /\ cidPc' = [cidPc EXCEPT ![r] = "done"]
  /\ UNCHANGED <<cidFine, cidCoarse>>
  /\ UNCHANGED notCidVars

CidNext ==
  \/ \E r \in Ranks : CoarsenBlock(r)
  \/ \E r \in Ranks : CoarsenReturn(r)

SpecCid == CidInit /\ [][CidNext]_vars

\* C30: on every rank every coarse block has the parent block, the rank, the
\* local position and the global position of the fine block it was coarsened
\* from.
C30_CoarseIdentityKept ==
  \A r \in Ranks : \A i \in DOMAIN cidCoarse[r] :
    cidCoarse[r][i] = cidFine[r][i]

====
